---------------------------- MODULE Spec2Model ----------------------------
(***************************************************************************)
(* The channel vote watcher of PyTIBot (lib/channelwatcher/vote.py).       *)
(*                                                                         *)
(* One Vote object serves one channel.  Its handlers are generators run    *)
(* by the reactor thread (defer.inlineCallbacks): a handler runs until it  *)
(* yields a Deferred, and is resumed by the reactor when the Deferred      *)
(* fires.  Storage calls (dbpool.runQuery / runInteraction) are executed   *)
(* by the pool's threads: a call is queued when the handler yields it      *)
(* (pc "..._q"), executed against the tables at some later moment by a     *)
(* pool thread (pc "..._r") and its result delivered to the handler by     *)
(* the reactor after that.  self._lock is a threading.Lock acquired by     *)
(* the reactor thread itself: an acquire that finds it held blocks the     *)
(* reactor thread, and with it every handler and every timer.              *)
(*                                                                         *)
(* The SQL statements are modelled by their meaning on ordinary arguments  *)
(* (poll ids that are numerals, identities and texts without quotes) and   *)
(* on the poll arguments `id` and `rowid`, which the statements put        *)
(* between double quotes where SQLite reads the name of a column.          *)
(***************************************************************************)
EXTENDS Naturals, Sequences, FiniteSets, TLC

VARIABLES users, names, polls, votes, rowids, lock, blocked,
          pending_confirmations, timers, num_active_users, tasks, background,
          channel

vars == <<users, names, polls, votes, rowids, lock, blocked,
          pending_confirmations, timers, num_active_users, tasks, background,
          channel>>

-----------------------------------------------------------------------------
(* Bounds: the number of command lines a behaviour of each specification   *)
(* receives.                                                               *)
MaxVoteCmds == 3
MaxGateCmds == 2
MaxTimeoutCmds == 3
MaxPollCmds == 2
MaxBallotCmds == 2
MaxAnswerCmds == 3
MaxIdCmds == 2
MaxUserCmds == 2
MaxRefCmds == 2
MaxMsgCmds == 2
MaxScenarioCmds == 5
MaxRowidCmds == 3
MaxOwnerCmds == 2

-----------------------------------------------------------------------------
(* The transport: nicknames, bot.get_auth and bot.is_user_admin.           *)

None == "None"

Nicks == {"ann", "bob", "Bob", "eve", "zed", "oper", "guest"}

\* bot.get_auth(nick): the account a nickname is logged in to, or None.
\* "bob" and "BOB" are two accounts whose names differ in letter case only.
get_auth(nick) ==
    CASE nick = "ann"   -> "ann"
      [] nick = "bob"   -> "bob"
      [] nick = "Bob"   -> "BOB"
      [] nick = "eve"   -> "eve"
      [] nick = "zed"   -> "zed"
      [] nick = "oper"  -> "oper"
      [] OTHER          -> None

Auths == {"ann", "bob", "BOB", "eve", "zed", "oper"}

\* bot.is_user_admin(nick): the transport's own admin flag.
is_user_admin(nick) == nick = "oper"

\* str.casefold on the identities of the model.
casefold(s) == IF s = "BOB" THEN "bob" ELSE s

-----------------------------------------------------------------------------
(* The enumerations and the tables.                                        *)

UserPrivilege == {"REVOKED", "USER", "ADMIN", "INVALID"}
PollStatus == {"RUNNING", "CANCELED", "PASSED", "TIED", "FAILED", "VETOED"}
VoteDecision == {"NONE", "ABSTAIN", "YES", "NO"}

\* A Users row is users[auth], "absent" when the table has no row of that id.
Absent == "absent"

\* What a query found when the table has no such row.
NoRow == [vote |-> "-", comment |-> ""]
NoPoll == "-"

\* Polls rows are polls[id], id = 1 .. Len(polls): INTEGER PRIMARY KEY
\* numbers the rows upwards and no row is ever deleted.
PollRow(description, creator) ==
    [description |-> description, creator |-> creator, status |-> "RUNNING",
     vetoed_by |-> None, veto_reason |-> None]

VoteRow(pollid, user, decision, comment) ==
    [poll_id |-> pollid, user |-> user, vote |-> decision, comment |-> comment]

VotesOf(pollid, user) == {r \in votes : r.poll_id = pollid /\ r.user = user}

\* The poll argument `id`.  The statements are built by format() with the
\* argument between double quotes: in a WHERE of Polls "id" is the column
\* id, in Votes, which has no such column, it is the text 'id'.
IdColumn == 0

\* The poll argument `rowid`: between double quotes it names the rowid of
\* the table of the statement, which in Polls is the id, and in Votes the
\* number a row was given by its INSERT.
RowidColumn == 8

\* WHERE id = "{pollid}" on Polls: the ids of the rows it selects.
PollsWhere(pollid) ==
    IF pollid \in {IdColumn, RowidColumn} THEN 1 .. Len(polls)
    ELSE {pollid} \cap (1 .. Len(polls))

\* The rowid of a Votes row: rowids lists the keys of the rows in the order
\* of their INSERT, and no row is ever deleted.
Rowid(r) == CHOOSE i \in 1 .. Len(rowids) : rowids[i] = <<r.poll_id, r.user>>

\* WHERE poll_id = "{pollid}" AND user = "{user}" on Votes: the rows it
\* selects.
VotesWhere(pollid, user) ==
    IF pollid = RowidColumn
    THEN {r \in votes : /\ r.user = user
                         /\ r.poll_id \notin {IdColumn, RowidColumn}
                         /\ r.poll_id = Rowid(r)}
    ELSE VotesOf(pollid, user)

\* The rows of a database at start, numbered in the order of their polls.
Numbered(rows) ==
    [i \in 1 .. Cardinality(rows) |->
        LET r == CHOOSE r \in rows :
                     Cardinality({q \in rows : q.poll_id < r.poll_id}) = i - 1
        IN  <<r.poll_id, r.user>>]

\* status[0][0]: the first of the selected rows, which SQLite returns in
\* the order of their ids.
FirstOf(ids) == CHOOSE i \in ids : \A j \in ids : i <= j

-----------------------------------------------------------------------------
(* Handlers in flight.  tasks[t] is the t-th command line received: the    *)
(* handler's arguments and locals, where it stands, and what it told its   *)
(* issuer.                                                                 *)

Task(kind, nick, pollid, decision, text) ==
    [kind |-> kind, pc |-> "start", nick |-> nick, auth |-> get_auth(nick),
     poll |-> pollid, dec |-> decision, text |-> text,
     privilege |-> "-", res |-> "-", creator |-> "-", previous |-> NoRow,
     answer |-> "-", note |-> "-", asked |-> FALSE,
     is_admin |-> FALSE, target |-> "-", count |-> 0]

TaskIds == 1 .. Len(tasks)

Set(t, r) == tasks' = [tasks EXCEPT ![t] = r]

Spawn(r) == tasks' = Append(tasks, r)

\* self.bot.msg(self.channel, ...): one line of the channel.
Say(kind, t, pollid, decision, old) ==
    channel' = Append(channel, [kind |-> kind, task |-> t, poll |-> pollid,
                                dec |-> decision, old |-> old])

Store == <<users, names, polls, votes, rowids>>
Engine == <<lock, blocked, pending_confirmations, timers, num_active_users>>


-----------------------------------------------------------------------------
(* The decisions the handlers take, one operator each.                     *)

\* A lookup that reads a missing record as a revoked one.
PrivilegeOf_Revoked(res) == IF res = Absent THEN "REVOKED" ELSE res

\* get_user_privilege: UserPrivilege[privilege[0][0]], INVALID when the
\* query found no row.
PrivilegeOf(res) == IF res = Absent THEN "INVALID" ELSE res

\* A check that turns away only the unregistered.
IsVoter_Registered(privilege) == privilege # "INVALID"

\* privilege in [UserPrivilege.USER, UserPrivilege.ADMIN]
IsVoter(privilege) == privilege \in {"USER", "ADMIN"}

\* A veto open to transport admins, as add_user and mod_user are.
MayVeto_Bypass(nick, privilege) == is_user_admin(nick) \/ privilege = "ADMIN"

\* issuer_privilege != UserPrivilege.ADMIN is what vote_veto refuses.
MayVeto(nick, privilege) == privilege = "ADMIN"

\* status != PollStatus.RUNNING is what vote_veto refuses.
VetoStatusOk(status) == status = "RUNNING"

\* status != PollStatus.RUNNING is what vote_cancel refuses.
CancelStatusOk(status) == status = "RUNNING"

\* poll_creator.casefold() != issuer_auth.casefold() is what vote_cancel
\* refuses.
IsCreator(creator, auth) == casefold(creator) = casefold(auth)

\* `if query:` on the Votes row of the voter.
AlreadyVoted(row) == row # NoRow

\* The answer taken the other way round.
CallbackValue_Inverted(word) == word = "no"

\* A Deferred fired with True whatever the answer.
CallbackValue_Always(word) == TRUE

\* callback(task=="yes"): the value the pending Deferred fires with.
CallbackValue(word) == word = "yes"

\* A key of poll_id alone: one row per poll.
InsertAllowed_PollKey(pollid, user) ==
    \A r \in votes : r.poll_id # pollid

\* A Votes table without its primary key.
InsertAllowed_NoKey(pollid, user) == TRUE

\* PRIMARY KEY (poll_id, user) of Votes: the INSERT is refused when the
\* table holds a row of that key.
InsertAllowed(pollid, user) == VotesOf(pollid, user) = {}

\* An acquire that never waits.
LockFree_Always == TRUE

\* with self._lock: the acquire returns at once only when the lock is free.
LockFree == lock = 0

\* A pop that leaves the entry where it is.
Pop_Keep(auth) == pending_confirmations

\* dict.pop(voterid): the entry of that key is removed, whoever put it there.
Pop(auth) == [pending_confirmations EXCEPT ![auth] = 0]

\* A lookup that takes identities differing in letter case for one key.
Entry_Casefold(userid) ==
    IF userid = None THEN 0
    ELSE LET S == {a \in Auths : /\ casefold(a) = casefold(userid)
                                 /\ pending_confirmations[a] # 0}
         IN  IF S = {} THEN 0
             ELSE pending_confirmations[CHOOSE a \in S : TRUE]

\* userid in self._pending_confirmations, and the Deferred found there:
\* the handler waiting on it, 0 when the key is absent.
Entry(userid) ==
    IF userid = None THEN 0 ELSE pending_confirmations[userid]

Without(seq, t) == SelectSeq(seq, LAMBDA x : x # t)

\* The reactor thread is not stuck in an acquire.
Running == blocked = 0

\* The voter's re-vote registered last among those still waiting (0: none).
LatestWaiting(auth) ==
    LET mine == SelectSeq(timers, LAMBDA x : tasks[x].auth = auth)
    IN  IF mine = <<>> THEN 0 ELSE mine[Len(mine)]

-----------------------------------------------------------------------------
(* get_user_privilege, as every handler but vote_cancel starts.  The wait  *)
(* for bot.get_auth inside it reads nothing of the object and is taken     *)
(* together with the step before it.                                       *)

\* The first segment of a handler that starts with get_user_privilege.
Begin(r, refusal) ==
    IF r.auth = None
    THEN Spawn([r EXCEPT !.privilege = "INVALID", !.note = refusal,
                         !.pc = "done"])
    ELSE Spawn([r EXCEPT !.pc = "priv_q"])

\* SELECT privilege FROM Users WHERE ID = auth, run by a pool thread.
ExecPrivilegeQuery(t) ==
    /\ tasks[t].pc = "priv_q"
    /\ Set(t, [tasks[t] EXCEPT !.pc = "priv_r", !.res = users[tasks[t].auth]])
    /\ UNCHANGED <<Store, Engine, background, channel>>

-----------------------------------------------------------------------------
(* vote and the re-vote confirmation.                                      *)

\* msg: vyes / vno / vabstain <poll> [comment].
MsgVote(nick, pollid, ballot) ==
    /\ Running
    /\ Begin(Task("vote", nick, pollid, ballot.dec, ballot.com),
             "You are not allowed to vote")
    /\ UNCHANGED <<Store, Engine, background, channel>>

\* vote: the privilege check, then the status query is queued.
vote_privilege(t) ==
    /\ Running
    /\ tasks[t].kind = "vote" /\ tasks[t].pc = "priv_r"
    /\ LET privilege == PrivilegeOf(tasks[t].res)
       IN  IF ~IsVoter(privilege)
           THEN Set(t, [tasks[t] EXCEPT !.privilege = privilege,
                            !.note = "You are not allowed to vote",
                            !.pc = "done"])
           ELSE Set(t, [tasks[t] EXCEPT !.privilege = privilege,
                            !.pc = "status_q"])
    /\ UNCHANGED <<Store, Engine, background, channel>>

\* SELECT status FROM Polls WHERE id = pollid (vote, vote_veto) and
\* SELECT creator, status (vote_cancel), run by a pool thread.
ExecPollQuery(t) ==
    /\ tasks[t].pc = "status_q"
    /\ LET rows == PollsWhere(tasks[t].poll)
           found == rows # {}
       IN  Set(t, [tasks[t] EXCEPT
                !.pc = "status_r",
                !.res = IF found THEN polls[FirstOf(rows)].status ELSE NoPoll,
                !.creator = IF found /\ tasks[t].kind = "cancel"
                            THEN polls[FirstOf(rows)].creator ELSE "-"])
    /\ UNCHANGED <<Store, Engine, background, channel>>

\* vote: the poll must exist and be RUNNING, then the Votes query is queued.
vote_status(t) ==
    /\ Running
    /\ tasks[t].kind = "vote" /\ tasks[t].pc = "status_r"
    /\ IF tasks[t].res = NoPoll
       THEN Set(t, [tasks[t] EXCEPT !.note = "doesn't exist", !.pc = "done"])
       ELSE IF tasks[t].res # "RUNNING"
       THEN Set(t, [tasks[t] EXCEPT !.note = "is not running", !.pc = "done"])
       ELSE Set(t, [tasks[t] EXCEPT !.pc = "votes_q"])
    /\ UNCHANGED <<Store, Engine, background, channel>>

\* SELECT vote, comment FROM Votes WHERE poll_id = .. AND user = ..
ExecVotesQuery(t) ==
    /\ tasks[t].pc = "votes_q"
    /\ LET rows == VotesWhere(tasks[t].poll, tasks[t].auth)
       IN  Set(t, [tasks[t] EXCEPT
                !.pc = "votes_r",
                !.previous = IF rows = {} THEN NoRow
                             ELSE LET r == CHOOSE r \in rows :
                                      \A q \in rows : Rowid(r) <= Rowid(q)
                                  IN  [vote |-> r.vote, comment |-> r.comment]])
    /\ UNCHANGED <<Store, Engine, background, channel>>

\* vote: a voter with a row is asked to confirm and waits on a new pending
\* Deferred with a 60 s timeout, which replaces the entry of that voter;
\* a voter without one has the INSERT queued.
vote_lookup(t) ==
    /\ Running
    /\ tasks[t].kind = "vote" /\ tasks[t].pc = "votes_r"
    /\ IF AlreadyVoted(tasks[t].previous)
       THEN /\ Set(t, [tasks[t] EXCEPT !.note = "You already voted",
                           !.pc = "confirm_wait"])
            /\ pending_confirmations' =
                   [pending_confirmations EXCEPT ![tasks[t].auth] = t]
            /\ timers' = Append(timers, t)
       ELSE /\ Set(t, [tasks[t] EXCEPT !.pc = "insert_q"])
            /\ UNCHANGED <<pending_confirmations, timers>>
    /\ UNCHANGED <<Store, lock, blocked, num_active_users, background, channel>>

\* insert_voteresult, run by a pool thread: refused by the primary key, or
\* failing in the store, or committed.  PRAGMA foreign_keys = ON was run
\* by initialize_databases on the connection of one pool thread and holds
\* for that connection: a row that references no poll is refused on it
\* (ok false) and committed on the others.
ExecInsertVote(t, ok) ==
    /\ tasks[t].pc = "insert_q"
    /\ IF ok /\ InsertAllowed(tasks[t].poll, tasks[t].auth)
       THEN /\ votes' = votes \cup {VoteRow(tasks[t].poll, tasks[t].auth,
                                            tasks[t].dec, tasks[t].text)}
            /\ rowids' = Append(rowids, <<tasks[t].poll, tasks[t].auth>>)
            /\ Set(t, [tasks[t] EXCEPT !.pc = "insert_r", !.res = "ok"])
       ELSE /\ votes' = votes /\ rowids' = rowids
            /\ Set(t, [tasks[t] EXCEPT !.pc = "insert_r", !.res = "error"])
    /\ UNCHANGED <<users, names, polls, Engine, background, channel>>

\* vote: the vote is announced; a failed INSERT is logged and nothing more.
vote_inserted(t) ==
    /\ Running
    /\ tasks[t].kind = "vote" /\ tasks[t].pc = "insert_r"
    /\ Set(t, [tasks[t] EXCEPT !.pc = "done"])
    /\ IF tasks[t].res = "ok"
       THEN Say("voted", t, tasks[t].poll, tasks[t].dec, "-")
       ELSE UNCHANGED channel
    /\ UNCHANGED <<Store, Engine, background>>

\* msg: yes / no.  The pending Deferred of the issuer fires, which runs the
\* waiting vote to its end at once: on True the UPDATE is handed to the pool
\* without waiting for it and the change is announced; the entry is popped.
MsgConfirm(nick, word) ==
    /\ Running
    /\ LET a == get_auth(nick)
           c == [Task("confirm", nick, 0, "-", word) EXCEPT !.pc = "done"]
           latest == IF a = None THEN 0 ELSE LatestWaiting(a)
           seen == IF latest # 0 /\ word = "yes"
                   THEN [tasks EXCEPT ![latest].asked = TRUE] ELSE tasks
       IN  IF Entry(a) = 0
           THEN /\ tasks' = Append(seen,
                                   [c EXCEPT !.note = "Nothing to confirm"])
                /\ UNCHANGED <<pending_confirmations, timers, background,
                               channel>>
           ELSE LET t == Entry(a)
                IN  /\ tasks' = Append([seen EXCEPT ![t].answer = word,
                                                   ![t].pc = "done"], c)
                    /\ IF CallbackValue(word)
                       THEN /\ background' = background \cup
                                   {[task |-> t, poll_id |-> tasks[t].poll,
                                     user |-> tasks[t].auth,
                                     vote |-> tasks[t].dec,
                                     comment |-> tasks[t].text]}
                            /\ Say("changed", t, tasks[t].poll, tasks[t].dec,
                                   tasks[t].previous.vote)
                       ELSE UNCHANGED <<background, channel>>
                    /\ pending_confirmations' = Pop(a)
                    /\ timers' = Without(timers, t)
    /\ UNCHANGED <<Store, lock, blocked, num_active_users>>

\* addTimeout(60, reactor): the oldest waiting Deferred times out.  The
\* voter is told, and the pop removes the voter's entry (a KeyError when
\* there is none, which is logged).
vote_timeout(t) ==
    /\ Running
    /\ timers # <<>> /\ t = Head(timers)
    /\ Set(t, [tasks[t] EXCEPT !.answer = "timeout", !.pc = "done",
                               !.note = "Confirmation timed out"])
    /\ pending_confirmations' = Pop(tasks[t].auth)
    /\ timers' = Tail(timers)
    /\ UNCHANGED <<Store, lock, blocked, num_active_users, background, channel>>

\* update_votedecision, run by a pool thread; nobody waits for its result,
\* which stays in the Deferred.
ExecUpdateVote(op, ok) ==
    /\ op \in background
    /\ background' = background \ {op}
    /\ votes' = IF ok
                THEN {IF r \in VotesWhere(op.poll_id, op.user)
                      THEN VoteRow(r.poll_id, r.user, op.vote, op.comment)
                      ELSE r : r \in votes}
                ELSE votes
    /\ Set(op.task, [tasks[op.task] EXCEPT !.res = IF ok THEN "ok" ELSE "error"])
    /\ UNCHANGED <<users, names, polls, rowids, Engine, channel>>


-----------------------------------------------------------------------------
(* The lock.  `with self._lock:` in a generator acquires when the segment  *)
(* reaches it and releases when the block is left, by return or exception. *)

\* The handler enters its block, or the reactor thread blocks in acquire.
Enter(t, r, inside) ==
    IF LockFree
    THEN /\ lock' = t
         /\ blocked' = blocked
         /\ Set(t, [r EXCEPT !.pc = inside])
    ELSE /\ lock' = lock
         /\ blocked' = t
         /\ Set(t, [r EXCEPT !.pc = "acquire"])

\* As Enter, for a handler whose first segment msg runs.
EnterNew(r, inside) ==
    IF LockFree
    THEN /\ lock' = Len(tasks) + 1
         /\ blocked' = blocked
         /\ Spawn([r EXCEPT !.pc = inside])
    ELSE /\ lock' = lock
         /\ blocked' = Len(tasks) + 1
         /\ Spawn([r EXCEPT !.pc = "acquire"])

\* A handler that ends without releasing.
Leave_Holding(t, r) ==
    /\ lock' = lock
    /\ Set(t, [r EXCEPT !.pc = "done"])

\* The handler leaves its block and ends.
Leave(t, r) ==
    /\ lock' = 0
    /\ Set(t, [r EXCEPT !.pc = "done"])

-----------------------------------------------------------------------------
(* vote_call.                                                              *)

\* msg: vcall <description>.
MsgVcall(nick, description) ==
    /\ Running
    /\ Begin(Task("call", nick, 0, "-", description),
             "You are not allowed to create votes")
    /\ UNCHANGED <<Store, Engine, background, channel>>

\* vote_call: the privilege is back, the issuer's identity is asked for.
vote_call_privilege(t) ==
    /\ Running
    /\ tasks[t].kind = "call" /\ tasks[t].pc = "priv_r"
    /\ Set(t, [tasks[t] EXCEPT !.privilege = PrivilegeOf(tasks[t].res),
                               !.pc = "auth_w"])
    /\ UNCHANGED <<Store, Engine, background, channel>>

\* vote_call: the privilege check, then the lock and the INSERT is queued.
vote_call_auth(t) ==
    /\ Running
    /\ tasks[t].kind = "call" /\ tasks[t].pc = "auth_w"
    /\ IF ~IsVoter(tasks[t].privilege)
       THEN /\ Set(t, [tasks[t] EXCEPT
                         !.note = "You are not allowed to create votes",
                         !.pc = "done"])
            /\ UNCHANGED <<lock, blocked>>
       ELSE Enter(t, tasks[t], "insert_poll_q")
    /\ UNCHANGED <<Store, pending_confirmations, timers, num_active_users,
                   background, channel>>

\* insert_poll, run by a pool thread.
ExecInsertPoll(t, ok) ==
    /\ tasks[t].pc = "insert_poll_q"
    /\ IF ok
       THEN /\ polls' = Append(polls, PollRow(tasks[t].text, tasks[t].auth))
            /\ Set(t, [tasks[t] EXCEPT !.pc = "insert_poll_r", !.res = "ok"])
       ELSE /\ polls' = polls
            /\ Set(t, [tasks[t] EXCEPT !.pc = "insert_poll_r",
                                       !.res = "error"])
    /\ UNCHANGED <<users, names, votes, rowids, Engine, background, channel>>

\* vote_call: a failed INSERT is told to the channel and the block is left;
\* otherwise SELECT MAX(id) is queued.
vote_call_inserted(t) ==
    /\ Running
    /\ tasks[t].kind = "call" /\ tasks[t].pc = "insert_poll_r"
    /\ IF tasks[t].res = "error"
       THEN /\ Say("Could not create new poll", t, 0, "-", "-")
            /\ Leave(t, tasks[t])
       ELSE /\ Set(t, [tasks[t] EXCEPT !.pc = "maxid_q"])
            /\ UNCHANGED <<lock, channel>>
    /\ UNCHANGED <<Store, blocked, pending_confirmations, timers,
                   num_active_users, background>>

\* SELECT MAX(id) FROM Polls, run by a pool thread.
ExecMaxId(t) ==
    /\ tasks[t].pc = "maxid_q"
    /\ Set(t, [tasks[t] EXCEPT !.pc = "maxid_r", !.poll = Len(polls)])
    /\ UNCHANGED <<Store, Engine, background, channel>>

\* vote_call: the new poll is announced under the id read back.
vote_call_announce(t) ==
    /\ Running
    /\ tasks[t].kind = "call" /\ tasks[t].pc = "maxid_r"
    /\ Say("New poll", t, tasks[t].poll, "-", "-")
    /\ Leave(t, tasks[t])
    /\ UNCHANGED <<Store, blocked, pending_confirmations, timers,
                   num_active_users, background>>

-----------------------------------------------------------------------------
(* vote_veto.                                                              *)

\* msg: vveto <poll> [reason].
MsgVveto(nick, pollid, reason) ==
    /\ Running
    /\ Begin(Task("veto", nick, pollid, "-", reason),
             "Only admins can VETO polls")
    /\ UNCHANGED <<Store, Engine, background, channel>>

\* vote_veto: the privilege check, then the issuer's identity is asked for.
vote_veto_privilege(t) ==
    /\ Running
    /\ tasks[t].kind = "veto" /\ tasks[t].pc = "priv_r"
    /\ LET privilege == PrivilegeOf(tasks[t].res)
       IN  IF ~MayVeto(tasks[t].nick, privilege)
           THEN Set(t, [tasks[t] EXCEPT !.privilege = privilege,
                            !.note = "Only admins can VETO polls",
                            !.pc = "done"])
           ELSE Set(t, [tasks[t] EXCEPT !.privilege = privilege,
                            !.pc = "auth_w"])
    /\ UNCHANGED <<Store, Engine, background, channel>>

\* vote_veto: the lock, and the status query is queued.
vote_veto_auth(t) ==
    /\ Running
    /\ tasks[t].kind = "veto" /\ tasks[t].pc = "auth_w"
    /\ Enter(t, tasks[t], "status_q")
    /\ UNCHANGED <<Store, pending_confirmations, timers, num_active_users,
                   background, channel>>

\* vote_veto: the poll must exist and be RUNNING, then the UPDATE is queued.
vote_veto_status(t) ==
    /\ Running
    /\ tasks[t].kind = "veto" /\ tasks[t].pc = "status_r"
    /\ IF tasks[t].res = NoPoll
       THEN /\ Leave(t, [tasks[t] EXCEPT !.note = "No Poll with given ID found"])
       ELSE IF ~VetoStatusOk(tasks[t].res)
       THEN /\ Leave(t, [tasks[t] EXCEPT !.note = "isn't running"])
       ELSE /\ Set(t, [tasks[t] EXCEPT !.pc = "veto_q"])
            /\ UNCHANGED lock
    /\ UNCHANGED <<Store, blocked, pending_confirmations, timers,
                   num_active_users, background, channel>>

\* update_poll_veto, run by a pool thread.
ExecUpdatePollVeto(t, ok) ==
    /\ tasks[t].pc = "veto_q"
    /\ polls' = IF ok
                THEN [i \in 1 .. Len(polls) |->
                        IF i \in PollsWhere(tasks[t].poll)
                        THEN [polls[i] EXCEPT !.status = "VETOED",
                                              !.vetoed_by = tasks[t].auth,
                                              !.veto_reason = tasks[t].text]
                        ELSE polls[i]]
                ELSE polls
    /\ Set(t, [tasks[t] EXCEPT !.pc = "veto_r",
                               !.res = IF ok THEN "ok" ELSE "error"])
    /\ UNCHANGED <<users, names, votes, rowids, Engine, background, channel>>

\* vote_veto: the veto is announced, or its failure told to the issuer.
vote_veto_done(t) ==
    /\ Running
    /\ tasks[t].kind = "veto" /\ tasks[t].pc = "veto_r"
    /\ IF tasks[t].res = "error"
       THEN /\ Leave(t, [tasks[t] EXCEPT !.note = "Error vetoing poll"])
            /\ UNCHANGED channel
       ELSE /\ Leave(t, tasks[t])
            /\ Say("vetoed", t, tasks[t].poll, "-", "-")
    /\ UNCHANGED <<Store, blocked, pending_confirmations, timers,
                   num_active_users, background>>

-----------------------------------------------------------------------------
(* vote_cancel.                                                            *)

\* msg: vcancel <poll>.  The handler takes the lock in its first segment.
MsgVcancel(nick, pollid) ==
    /\ Running
    /\ EnterNew(Task("cancel", nick, pollid, "-", "-"), "status_q")
    /\ UNCHANGED <<Store, pending_confirmations, timers, num_active_users,
                   background, channel>>

\* vote_cancel: the poll must exist; the issuer's identity is asked for,
\* inside the block.
vote_cancel_poll(t) ==
    /\ Running
    /\ tasks[t].kind = "cancel" /\ tasks[t].pc = "status_r"
    /\ IF tasks[t].res = NoPoll
       THEN Leave(t, [tasks[t] EXCEPT !.note = "No Poll with given ID found"])
       ELSE /\ Set(t, [tasks[t] EXCEPT !.pc = "auth_w"])
            /\ UNCHANGED lock
    /\ UNCHANGED <<Store, blocked, pending_confirmations, timers,
                   num_active_users, background, channel>>

\* vote_cancel: the issuer must be the creator (None.casefold() raises, and
\* the handler ends with the exception) and the poll RUNNING, then the
\* UPDATE is queued.
vote_cancel_auth(t) ==
    /\ Running
    /\ tasks[t].kind = "cancel" /\ tasks[t].pc = "auth_w"
    /\ IF tasks[t].auth = None
       THEN Leave(t, [tasks[t] EXCEPT !.note = "AttributeError"])
       ELSE IF ~IsCreator(tasks[t].creator, tasks[t].auth)
       THEN Leave(t, [tasks[t] EXCEPT
                        !.note = "Only the creator of a poll can cancel it"])
       ELSE IF ~CancelStatusOk(tasks[t].res)
       THEN Leave(t, [tasks[t] EXCEPT !.note = "isn't running"])
       ELSE /\ Set(t, [tasks[t] EXCEPT !.pc = "cancel_q"])
            /\ UNCHANGED lock
    /\ UNCHANGED <<Store, blocked, pending_confirmations, timers,
                   num_active_users, background, channel>>

\* update_pollstatus(pollid, CANCELED), run by a pool thread.
ExecUpdatePollStatus(t, ok) ==
    /\ tasks[t].pc = "cancel_q"
    /\ polls' = IF ok
                THEN [i \in 1 .. Len(polls) |->
                        IF i \in PollsWhere(tasks[t].poll)
                        THEN [polls[i] EXCEPT !.status = "CANCELED"]
                        ELSE polls[i]]
                ELSE polls
    /\ Set(t, [tasks[t] EXCEPT !.pc = "cancel_r",
                               !.res = IF ok THEN "ok" ELSE "error"])
    /\ UNCHANGED <<users, names, votes, rowids, Engine, background, channel>>

\* vote_cancel: the cancellation is announced, or its failure told.
vote_cancel_done(t) ==
    /\ Running
    /\ tasks[t].kind = "cancel" /\ tasks[t].pc = "cancel_r"
    /\ IF tasks[t].res = "error"
       THEN /\ Leave(t, [tasks[t] EXCEPT !.note = "Error cancelling poll"])
            /\ UNCHANGED channel
       ELSE /\ Leave(t, tasks[t])
            /\ Say("cancelled", t, tasks[t].poll, "-", "-")
    /\ UNCHANGED <<Store, blocked, pending_confirmations, timers,
                   num_active_users, background>>


-----------------------------------------------------------------------------
(* add_user, mod_user and query_active_user_count.  The waits for          *)
(* bot.is_user_admin and bot.get_auth read nothing of the object and are   *)
(* taken together with the step before them.                               *)

\* A gate that lets every registered voter manage users.
MayManage_Voters(is_admin, privilege) ==
    is_admin \/ privilege \in {"USER", "ADMIN"}

\* not (is_admin or issuer_privilege == UserPrivilege.ADMIN) is refused.
MayManage(is_admin, privilege) == is_admin \/ privilege = "ADMIN"

\* The CHECK of Users.privilege.
CheckPrivilege(privilege) == privilege \in {"REVOKED", "USER", "ADMIN"}

\* An INSERT OR REPLACE.
UserInsertAllowed_Replace(auth, privilege) == CheckPrivilege(privilege)

\* INSERT INTO Users: id is the PRIMARY KEY, privilege is CHECKed.
UserInsertAllowed(auth, privilege) ==
    users[auth] = Absent /\ CheckPrivilege(privilege)

\* The handler after get_user_privilege: the gate, then the target's
\* identity, then the storage call `next` is queued.
Manage(r, privilege, next) ==
    IF ~MayManage(r.is_admin, privilege)
    THEN [r EXCEPT !.privilege = privilege, !.pc = "done",
                   !.note = "Insufficient permissions"]
    ELSE IF r.target = None
    THEN [r EXCEPT !.privilege = privilege, !.pc = "done",
                   !.note = "Couldn't query user's AUTH, aborting..."]
    ELSE [r EXCEPT !.privilege = privilege, !.pc = next]

\* The first segment of add_user and mod_user: an issuer who is not logged
\* in has privilege INVALID without a query.
BeginManage(r, next) ==
    IF r.auth = None
    THEN Spawn(Manage(r, "INVALID", next))
    ELSE Spawn([r EXCEPT !.pc = "priv_q"])

\* msg: useradd <user> [privilege].
MsgUseradd(nick, user, privilege) ==
    /\ Running
    /\ BeginManage([Task("add", nick, 0, privilege, user) EXCEPT
                        !.is_admin = is_user_admin(nick),
                        !.target = get_auth(user)], "insert_user_q")
    /\ UNCHANGED <<Store, Engine, background, channel>>

\* add_user: the gate and the target's identity, then the INSERT is queued.
add_user_privilege(t) ==
    /\ Running
    /\ tasks[t].kind = "add" /\ tasks[t].pc = "priv_r"
    /\ Set(t, Manage(tasks[t], PrivilegeOf(tasks[t].res), "insert_user_q"))
    /\ UNCHANGED <<Store, Engine, background, channel>>

\* insert_user, run by a pool thread.
ExecInsertUser(t, ok) ==
    /\ tasks[t].pc = "insert_user_q"
    /\ IF ok /\ UserInsertAllowed(tasks[t].target, tasks[t].dec)
       THEN /\ users' = [users EXCEPT ![tasks[t].target] = tasks[t].dec]
            /\ names' = [names EXCEPT ![tasks[t].target] = tasks[t].text]
            /\ Set(t, [tasks[t] EXCEPT !.pc = "insert_user_r", !.res = "ok"])
       ELSE /\ UNCHANGED <<users, names>>
            /\ Set(t, [tasks[t] EXCEPT !.pc = "insert_user_r",
                                       !.res = "error"])
    /\ UNCHANGED <<polls, votes, rowids, Engine, background, channel>>

\* add_user: a failed INSERT is told to the issuer; after a committed one
\* the counter is incremented.
add_user_inserted(t) ==
    /\ Running
    /\ tasks[t].kind = "add" /\ tasks[t].pc = "insert_user_r"
    /\ IF tasks[t].res = "error"
       THEN /\ Set(t, [tasks[t] EXCEPT !.note = "Couldn't add user",
                                       !.pc = "done"])
            /\ UNCHANGED num_active_users
       ELSE /\ Set(t, [tasks[t] EXCEPT !.note = "Successfully added User",
                                       !.pc = "done"])
            /\ num_active_users' = num_active_users + 1
    /\ UNCHANGED <<Store, lock, blocked, pending_confirmations, timers,
                   background, channel>>

\* msg: usermod <user> <privilege>.
MsgUsermod(nick, user, privilege) ==
    /\ Running
    /\ BeginManage([Task("mod", nick, 0, privilege, user) EXCEPT
                        !.is_admin = is_user_admin(nick),
                        !.target = get_auth(user)], "update_user_q")
    /\ UNCHANGED <<Store, Engine, background, channel>>

\* mod_user: the gate and the target's identity, then the UPDATE is queued.
mod_user_privilege(t) ==
    /\ Running
    /\ tasks[t].kind = "mod" /\ tasks[t].pc = "priv_r"
    /\ Set(t, Manage(tasks[t], PrivilegeOf(tasks[t].res), "update_user_q"))
    /\ UNCHANGED <<Store, Engine, background, channel>>

\* update_user, run by a pool thread: UPDATE .. WHERE id = auth changes
\* the row of that id when there is one, and is no error when there is
\* none; the CHECK is applied to a row that is changed.
ExecUpdateUser(t, ok) ==
    /\ tasks[t].pc = "update_user_q"
    /\ LET found == users[tasks[t].target] # Absent
       IN  IF ~ok \/ (found /\ ~CheckPrivilege(tasks[t].dec))
           THEN /\ users' = users
                /\ Set(t, [tasks[t] EXCEPT !.pc = "update_user_r",
                                           !.res = "error"])
           ELSE /\ users' = IF found
                            THEN [users EXCEPT ![tasks[t].target] = tasks[t].dec]
                            ELSE users
                /\ Set(t, [tasks[t] EXCEPT !.pc = "update_user_r",
                                           !.res = "ok"])
    /\ UNCHANGED <<names, polls, votes, rowids, Engine, background,
                   channel>>

\* mod_user: a failed UPDATE is told to the issuer; otherwise the count
\* query is started, not waited for, and success is told.
mod_user_updated(t) ==
    /\ Running
    /\ tasks[t].kind = "mod" /\ tasks[t].pc = "update_user_r"
    /\ IF tasks[t].res = "error"
       THEN Set(t, [tasks[t] EXCEPT !.note = "Couldn't modify user",
                                    !.pc = "done"])
       ELSE Set(t, [tasks[t] EXCEPT !.note = "Successfully modified User",
                                    !.pc = "count_q"])
    /\ UNCHANGED <<Store, Engine, background, channel>>

\* SELECT COUNT() FROM Users WHERE privilege="ADMIN" OR privilege="USER"
ActiveUsers(table) == Cardinality({a \in Auths : table[a] \in {"USER", "ADMIN"}})

\* query_active_user_count: the count query, run by a pool thread.
ExecCountQuery(t) ==
    /\ tasks[t].pc = "count_q"
    /\ Set(t, [tasks[t] EXCEPT !.pc = "count_r", !.count = ActiveUsers(users)])
    /\ UNCHANGED <<Store, Engine, background, channel>>

\* query_active_user_count: the count read is stored in the counter.
query_active_user_count(t) ==
    /\ Running
    /\ tasks[t].pc = "count_r"
    /\ num_active_users' = tasks[t].count
    /\ Set(t, [tasks[t] EXCEPT !.pc = "done"])
    /\ UNCHANGED <<Store, lock, blocked, pending_confirmations, timers,
                   background, channel>>

-----------------------------------------------------------------------------
(* msg: a line of the channel that starts with the prefix, split into its  *)
(* tokens.                                                                 *)

\* " ".join(tokens)
RECURSIVE Join(_)
Join(tokens) ==
    IF tokens = <<>> THEN ""
    ELSE IF Len(tokens) = 1 THEN tokens[1]
    ELSE tokens[1] \o " " \o Join(Tail(tokens))

\* tokens[n:], with 0 the index of the first token.
From(tokens, n) == SubSeq(tokens, n + 1, Len(tokens))

\* str.upper() on the words the lines are made of.
upper(word) ==
    CASE word \in {"user", "User", "USER"} -> "USER"
      [] word \in {"admin", "ADMIN"} -> "ADMIN"
      [] word \in {"revoked", "REVOKED"} -> "REVOKED"
      [] word \in {"invalid", "INVALID"} -> "INVALID"
      [] word = "boss" -> "BOSS"
      [] word = "yes" -> "YES"
      [] word = "no" -> "NO"
      [] word = "abstain" -> "ABSTAIN"
      [] OTHER -> word

\* task[1:] of the three vote commands.
Rest(task) ==
    CASE task = "vyes" -> "yes"
      [] task = "vno" -> "no"
      [] task = "vabstain" -> "abstain"

\* A check that takes every word for a privilege.
KnownPrivilege_Any(word) == TRUE

\* tokens[2].upper() in UserPrivilege.__members__
KnownPrivilege(word) == upper(word) \in UserPrivilege

\* The poll a pollid token stands for in the statements: a numeral is
\* compared with the INTEGER column as its number, `id` names the column,
\* any other word is the id of no poll.
PollArg(token) ==
    CASE token = "1" -> 1
      [] token = "2" -> 2
      [] token = "id" -> IdColumn
      [] token = "rowid" -> RowidColumn
      [] OTHER -> 9

\* msg returns after a notice, or without one, and no handler is started.
Reject(nick, tokens, note) ==
    /\ Spawn([Task("msg", nick, 0, "-", Join(tokens)) EXCEPT
                  !.pc = "done", !.note = note])
    /\ UNCHANGED <<Store, Engine, background, channel>>

\* msg(user, message), message.lstrip(self.prefix).split() being tokens.
\* tokens[0] of a line without tokens raises IndexError; a first word that
\* is no command is passed over.
msg(nick, tokens) ==
    /\ Running
    /\ IF tokens = <<>> THEN Reject(nick, tokens, "-")
       ELSE LET task == tokens[1]
            IN  CASE task = "useradd" ->
                       IF Len(tokens) \notin {2, 3}
                       THEN Reject(nick, tokens, "Incorrect call for useradd")
                       ELSE IF Len(tokens) = 3 /\ ~KnownPrivilege(tokens[3])
                       THEN Reject(nick, tokens,
                                   "Unknown privilege, aborting...")
                       ELSE MsgUseradd(nick, tokens[2],
                                       IF Len(tokens) = 3
                                       THEN upper(tokens[3]) ELSE "USER")
                  [] task = "usermod" ->
                       IF Len(tokens) # 3
                       THEN Reject(nick, tokens, "Incorrect call for usermod")
                       ELSE IF ~KnownPrivilege(tokens[3])
                       THEN Reject(nick, tokens,
                                   "Unknown privilege, aborting...")
                       ELSE MsgUsermod(nick, tokens[2], upper(tokens[3]))
                  [] task = "vcall" ->
                       IF Len(tokens) < 2
                       THEN Reject(nick, tokens, "Please add a description")
                       ELSE MsgVcall(nick, Join(From(tokens, 1)))
                  [] task \in {"vyes", "vno", "vabstain"} ->
                       IF Len(tokens) < 2
                       THEN Reject(nick, tokens, "No poll ID given")
                       ELSE MsgVote(nick, PollArg(tokens[2]),
                                    [dec |-> upper(Rest(task)),
                                     com |-> Join(From(tokens, 2))])
                  [] task = "vveto" ->
                       IF Len(tokens) < 2
                       THEN Reject(nick, tokens, "No poll ID given")
                       ELSE MsgVveto(nick, PollArg(tokens[2]),
                                     Join(From(tokens, 2)))
                  [] task = "vcancel" ->
                       IF Len(tokens) < 2
                       THEN Reject(nick, tokens, "No poll ID given")
                       ELSE MsgVcancel(nick, PollArg(tokens[2]))
                  [] task \in {"yes", "no"} -> MsgConfirm(nick, task)
                  [] OTHER -> Reject(nick, tokens, "-")

-----------------------------------------------------------------------------
(* Initial states.  The tables live in the channel's database file and     *)
(* outlast the process: the object is constructed over the rows earlier    *)
(* sessions left, here an admin, two users, a revoked user and one running *)
(* poll.                                                                   *)

SeedUsers ==
    [a \in Auths |-> CASE a = "ann"  -> "ADMIN"
                       [] a = "bob"  -> "USER"
                       [] a = "oper" -> "USER"
                       [] a = "eve"  -> "REVOKED"
                       [] OTHER      -> Absent]

\* Users.name of the rows above: the nick each account was added under.
SeedNames == [a \in Auths |-> IF SeedUsers[a] = Absent THEN "-" ELSE a]

SeedPolls == <<PollRow("lunch order", "bob")>>

SeedVotes == {VoteRow(1, "bob", "YES", "pizza")}

InitEngine ==
    /\ lock = 0
    /\ blocked = 0
    /\ pending_confirmations = [a \in Auths |-> 0]
    /\ timers = <<>>
    /\ tasks = <<>>
    /\ background = {}
    /\ channel = <<>>

InitStore ==
    /\ users = SeedUsers
    /\ names = SeedNames
    /\ polls = SeedPolls
    /\ num_active_users = ActiveUsers(SeedUsers)

\* What the voters of the model send with vyes / vno / vabstain.
Ballots == {[dec |-> "NO", com |-> "changed mind"],
            [dec |-> "ABSTAIN", com |-> ""]}

\* Whether a pool thread's write commits or fails in the store.
Outcomes == BOOLEAN

-----------------------------------------------------------------------------
(* SpecVote: one voter votes and re-votes on the running poll and answers  *)
(* yes or no, while polls are called.                                      *)

InitVote ==
    /\ InitEngine
    /\ InitStore
    /\ votes \in {{}, SeedVotes}
    /\ rowids = Numbered(votes)

NextVote ==
    \/ \E b \in Ballots : Len(tasks) < MaxVoteCmds /\ MsgVote("bob", 1, b)
    \/ \E w \in {"yes", "no"} :
          Len(tasks) < MaxVoteCmds /\ MsgConfirm("bob", w)
    \/ \E t \in TaskIds : ExecPrivilegeQuery(t)
    \/ \E t \in TaskIds : vote_privilege(t)
    \/ \E t \in TaskIds : ExecPollQuery(t)
    \/ \E t \in TaskIds : vote_status(t)
    \/ \E t \in TaskIds : ExecVotesQuery(t)
    \/ \E t \in TaskIds : vote_lookup(t)
    \/ \E t \in TaskIds, ok \in Outcomes : ExecInsertVote(t, ok)
    \/ \E t \in TaskIds : vote_inserted(t)
    \/ \E t \in TaskIds : vote_timeout(t)
    \/ \E op \in background, ok \in Outcomes : ExecUpdateVote(op, ok)

SpecVote == InitVote /\ [][NextVote]_vars


-----------------------------------------------------------------------------
(* SpecTimeout: a re-vote waits for its confirmation, which nobody gives,  *)
(* while polls are called.  The reactor runs every callback that is ready  *)
(* and every timer that is due, and the pool runs every call queued.       *)

InitTimeout ==
    /\ InitEngine
    /\ InitStore
    /\ votes = SeedVotes
    /\ rowids = Numbered(votes)

ProgressTimeout ==
    \/ \E t \in TaskIds : ExecPrivilegeQuery(t)
    \/ \E t \in TaskIds : vote_privilege(t)
    \/ \E t \in TaskIds : ExecPollQuery(t)
    \/ \E t \in TaskIds : vote_status(t)
    \/ \E t \in TaskIds : ExecVotesQuery(t)
    \/ \E t \in TaskIds : vote_lookup(t)
    \/ \E t \in TaskIds : vote_timeout(t)
    \/ \E t \in TaskIds : vote_call_privilege(t)
    \/ \E t \in TaskIds : vote_call_auth(t)
    \/ \E t \in TaskIds, ok \in Outcomes : ExecInsertPoll(t, ok)
    \/ \E t \in TaskIds : vote_call_inserted(t)
    \/ \E t \in TaskIds : ExecMaxId(t)
    \/ \E t \in TaskIds : vote_call_announce(t)

NextTimeout ==
    \/ /\ Len(tasks) < MaxTimeoutCmds
       /\ MsgVote("bob", 1, [dec |-> "NO", com |-> "changed mind"])
    \/ Len(tasks) < MaxTimeoutCmds /\ MsgVcall("bob", "dinner order")
    \/ ProgressTimeout

SpecTimeout ==
    InitTimeout /\ [][NextTimeout]_vars /\ WF_vars(ProgressTimeout)

-----------------------------------------------------------------------------
(* SpecGate: commands of issuers with and without the privilege for them.  *)
(* eve voted before she was revoked.                                       *)

GateVotes == {VoteRow(1, "eve", "YES", "pizza")}

InitGate ==
    /\ InitEngine
    /\ InitStore
    /\ votes = GateVotes
    /\ rowids = Numbered(votes)

NextGate ==
    \/ \E n \in {"bob", "eve", "zed", "guest"} :
          /\ Len(tasks) < MaxGateCmds
          /\ MsgVote(n, 1, [dec |-> "NO", com |-> "changed mind"])
    \/ \E n \in {"bob", "eve", "guest"} :
          Len(tasks) < MaxGateCmds /\ MsgVcall(n, "dinner order")
    \/ \E n \in {"ann", "bob", "oper", "guest"} :
          Len(tasks) < MaxGateCmds /\ MsgVveto(n, 1, "spam")
    \/ \E t \in TaskIds : ExecPrivilegeQuery(t)
    \/ \E t \in TaskIds : vote_privilege(t)
    \/ \E t \in TaskIds : ExecPollQuery(t)
    \/ \E t \in TaskIds : vote_status(t)
    \/ \E t \in TaskIds : ExecVotesQuery(t)
    \/ \E t \in TaskIds : vote_lookup(t)
    \/ \E t \in TaskIds, ok \in Outcomes : ExecInsertVote(t, ok)
    \/ \E t \in TaskIds : vote_inserted(t)
    \/ \E t \in TaskIds : vote_timeout(t)
    \/ \E t \in TaskIds : vote_call_privilege(t)
    \/ \E t \in TaskIds : vote_call_auth(t)
    \/ \E t \in TaskIds, ok \in Outcomes : ExecInsertPoll(t, ok)
    \/ \E t \in TaskIds : vote_call_inserted(t)
    \/ \E t \in TaskIds : ExecMaxId(t)
    \/ \E t \in TaskIds : vote_call_announce(t)
    \/ \E t \in TaskIds : vote_veto_privilege(t)
    \/ \E t \in TaskIds : vote_veto_auth(t)
    \/ \E t \in TaskIds : vote_veto_status(t)
    \/ \E t \in TaskIds, ok \in Outcomes : ExecUpdatePollVeto(t, ok)
    \/ \E t \in TaskIds : vote_veto_done(t)

SpecGate == InitGate /\ [][NextGate]_vars

-----------------------------------------------------------------------------
(* SpecPoll: polls are called, vetoed and cancelled.                       *)

InitPoll ==
    /\ InitEngine
    /\ InitStore
    /\ votes = {}
    /\ rowids = Numbered(votes)

\* vveto <poll> <reason> as ann sends it; poll 2 is there once it has
\* been called.
PollVetoes == {<<1, "spam">>, <<1, "dupe">>, <<2, "spam">>}

\* vcancel <poll> and who sends it.
PollCancels == {<<"bob", 1>>, <<"Bob", 1>>, <<"ann", 1>>, <<"guest", 1>>,
                <<"bob", 2>>}

\* vcall <description> and who sends it.
PollCalls == {<<"bob", "dinner order">>, <<"ann", "movie night">>}

\* What the reactor thread and the pool threads do without a new command
\* line: callbacks that are ready and storage calls that are queued.
ProgressPoll ==
    \/ \E t \in TaskIds : ExecPrivilegeQuery(t)
    \/ \E t \in TaskIds : ExecPollQuery(t)
    \/ \E t \in TaskIds : vote_call_privilege(t)
    \/ \E t \in TaskIds : vote_call_auth(t)
    \/ \E t \in TaskIds, ok \in Outcomes : ExecInsertPoll(t, ok)
    \/ \E t \in TaskIds : vote_call_inserted(t)
    \/ \E t \in TaskIds : ExecMaxId(t)
    \/ \E t \in TaskIds : vote_call_announce(t)
    \/ \E t \in TaskIds : vote_veto_privilege(t)
    \/ \E t \in TaskIds : vote_veto_auth(t)
    \/ \E t \in TaskIds : vote_veto_status(t)
    \/ \E t \in TaskIds, ok \in Outcomes : ExecUpdatePollVeto(t, ok)
    \/ \E t \in TaskIds : vote_veto_done(t)
    \/ \E t \in TaskIds : vote_cancel_poll(t)
    \/ \E t \in TaskIds : vote_cancel_auth(t)
    \/ \E t \in TaskIds, ok \in Outcomes : ExecUpdatePollStatus(t, ok)
    \/ \E t \in TaskIds : vote_cancel_done(t)

NextPoll ==
    \/ \E c \in PollCalls :
          Len(tasks) < MaxPollCmds /\ MsgVcall(c[1], c[2])
    \/ \E c \in PollVetoes :
          Len(tasks) < MaxPollCmds /\ MsgVveto("ann", c[1], c[2])
    \/ \E c \in PollCancels :
          Len(tasks) < MaxPollCmds /\ MsgVcancel(c[1], c[2])
    \/ ProgressPoll

SpecPoll == InitPoll /\ [][NextPoll]_vars

-----------------------------------------------------------------------------
(* SpecIds: two running polls, bob's and ann's; vetoes and cancels name a  *)
(* poll by its number or are given the poll argument `id`.                 *)

InitIds ==
    /\ InitEngine
    /\ users = SeedUsers
    /\ names = SeedNames
    /\ polls = <<PollRow("lunch order", "bob"), PollRow("movie night", "ann")>>
    /\ num_active_users = ActiveUsers(SeedUsers)
    /\ votes = {}
    /\ rowids = Numbered(votes)

\* vveto <poll> <reason> as ann sends it.
IdVetoes == {<<IdColumn, "spam">>, <<2, "dupe">>}

\* vcancel <poll> and who sends it.
IdCancels == {<<"bob", IdColumn>>, <<"bob", 2>>, <<"ann", 2>>}

NextIds ==
    \/ \E c \in IdVetoes :
          Len(tasks) < MaxIdCmds /\ MsgVveto("ann", c[1], c[2])
    \/ \E c \in IdCancels :
          Len(tasks) < MaxIdCmds /\ MsgVcancel(c[1], c[2])
    \/ \E t \in TaskIds : ExecPrivilegeQuery(t)
    \/ \E t \in TaskIds : ExecPollQuery(t)
    \/ \E t \in TaskIds : vote_veto_privilege(t)
    \/ \E t \in TaskIds : vote_veto_auth(t)
    \/ \E t \in TaskIds : vote_veto_status(t)
    \/ \E t \in TaskIds, ok \in Outcomes : ExecUpdatePollVeto(t, ok)
    \/ \E t \in TaskIds : vote_veto_done(t)
    \/ \E t \in TaskIds : vote_cancel_poll(t)
    \/ \E t \in TaskIds : vote_cancel_auth(t)
    \/ \E t \in TaskIds, ok \in Outcomes : ExecUpdatePollStatus(t, ok)
    \/ \E t \in TaskIds : vote_cancel_done(t)

SpecIds == InitIds /\ [][NextIds]_vars

-----------------------------------------------------------------------------
(* SpecRowid: two running polls on which bob has voted YES, first on       *)
(* poll 1 and then on poll 2; bob votes again, naming a poll by its number *)
(* or giving the poll argument `rowid`, and answers yes or no.             *)

InitRowid ==
    /\ InitEngine
    /\ users = SeedUsers
    /\ names = SeedNames
    /\ polls = <<PollRow("lunch order", "bob"), PollRow("movie night", "ann")>>
    /\ num_active_users = ActiveUsers(SeedUsers)
    /\ votes = {VoteRow(1, "bob", "YES", "pizza"),
                VoteRow(2, "bob", "YES", "heat")}
    /\ rowids = Numbered(votes)

NextRowid ==
    \/ \E p \in {1, 2, RowidColumn} :
          /\ Len(tasks) < MaxRowidCmds
          /\ MsgVote("bob", p, [dec |-> "NO", com |-> "changed mind"])
    \/ \E w \in {"yes", "no"} :
          Len(tasks) < MaxRowidCmds /\ MsgConfirm("bob", w)
    \/ \E t \in TaskIds : ExecPrivilegeQuery(t)
    \/ \E t \in TaskIds : vote_privilege(t)
    \/ \E t \in TaskIds : ExecPollQuery(t)
    \/ \E t \in TaskIds : vote_status(t)
    \/ \E t \in TaskIds : ExecVotesQuery(t)
    \/ \E t \in TaskIds : vote_lookup(t)
    \/ \E t \in TaskIds : vote_timeout(t)
    \/ \E op \in background, ok \in Outcomes : ExecUpdateVote(op, ok)

SpecRowid == InitRowid /\ [][NextRowid]_vars

-----------------------------------------------------------------------------
(* SpecOwner: two running polls, the admin ann's and the user bob's; ann   *)
(* revokes bob, and both cancel, bob his poll and ann bob's poll, by its   *)
(* number or with the poll argument `id`.                                  *)

InitOwner ==
    /\ InitEngine
    /\ users = SeedUsers
    /\ names = SeedNames
    /\ polls = <<PollRow("movie night", "ann"), PollRow("lunch order", "bob")>>
    /\ num_active_users = ActiveUsers(SeedUsers)
    /\ votes = {}
    /\ rowids = Numbered(votes)

\* vcancel <poll> and who sends it.
OwnerCancels == {<<"bob", 2>>, <<"ann", 2>>, <<"ann", IdColumn>>}

NextOwner ==
    \/ Len(tasks) < MaxOwnerCmds /\ MsgUsermod("ann", "bob", "REVOKED")
    \/ \E c \in OwnerCancels :
          Len(tasks) < MaxOwnerCmds /\ MsgVcancel(c[1], c[2])
    \/ \E t \in TaskIds : ExecPrivilegeQuery(t)
    \/ \E t \in TaskIds : ExecPollQuery(t)
    \/ \E t \in TaskIds : vote_cancel_poll(t)
    \/ \E t \in TaskIds : vote_cancel_auth(t)
    \/ \E t \in TaskIds, ok \in Outcomes : ExecUpdatePollStatus(t, ok)
    \/ \E t \in TaskIds : vote_cancel_done(t)
    \/ \E t \in TaskIds : mod_user_privilege(t)
    \/ \E t \in TaskIds, ok \in Outcomes : ExecUpdateUser(t, ok)
    \/ \E t \in TaskIds : mod_user_updated(t)
    \/ \E t \in TaskIds : ExecCountQuery(t)
    \/ \E t \in TaskIds : query_active_user_count(t)

SpecOwner == InitOwner /\ [][NextOwner]_vars

-----------------------------------------------------------------------------
(* SpecBallot: two users cast their votes on the running poll, which has   *)
(* no votes yet, and the store commits every write it accepts.             *)

InitBallot ==
    /\ InitEngine
    /\ InitStore
    /\ votes = {}
    /\ rowids = Numbered(votes)

NextBallot ==
    \/ \E n \in {"ann", "bob"}, b \in Ballots :
          Len(tasks) < MaxBallotCmds /\ MsgVote(n, 1, b)
    \/ \E t \in TaskIds : ExecPrivilegeQuery(t)
    \/ \E t \in TaskIds : vote_privilege(t)
    \/ \E t \in TaskIds : ExecPollQuery(t)
    \/ \E t \in TaskIds : vote_status(t)
    \/ \E t \in TaskIds : ExecVotesQuery(t)
    \/ \E t \in TaskIds : vote_lookup(t)
    \/ \E t \in TaskIds : ExecInsertVote(t, TRUE)
    \/ \E t \in TaskIds : vote_inserted(t)
    \/ \E t \in TaskIds : vote_timeout(t)

SpecBallot == InitBallot /\ [][NextBallot]_vars

-----------------------------------------------------------------------------
(* SpecAnswer: bob re-votes, and yes and no come from bob, from the account *)
(* BOB and from a nick that is not logged in.                              *)

InitAnswer ==
    /\ InitEngine
    /\ InitStore
    /\ votes = SeedVotes
    /\ rowids = Numbered(votes)

NextAnswer ==
    \/ /\ Len(tasks) < MaxAnswerCmds
       /\ MsgVote("bob", 1, [dec |-> "NO", com |-> "changed mind"])
    \/ \E n \in {"bob", "Bob", "guest"}, w \in {"yes", "no"} :
          Len(tasks) < MaxAnswerCmds /\ MsgConfirm(n, w)
    \/ \E t \in TaskIds : ExecPrivilegeQuery(t)
    \/ \E t \in TaskIds : vote_privilege(t)
    \/ \E t \in TaskIds : ExecPollQuery(t)
    \/ \E t \in TaskIds : vote_status(t)
    \/ \E t \in TaskIds : ExecVotesQuery(t)
    \/ \E t \in TaskIds : vote_lookup(t)
    \/ \E t \in TaskIds : vote_timeout(t)
    \/ \E op \in background, ok \in Outcomes : ExecUpdateVote(op, ok)

SpecAnswer == InitAnswer /\ [][NextAnswer]_vars

-----------------------------------------------------------------------------
(* SpecUsers: users are added and modified, by the stored admin ann, the   *)
(* transport admin oper, the user bob and a nick that is not logged in.    *)

InitUsers ==
    /\ InitEngine
    /\ InitStore
    /\ votes = {}
    /\ rowids = Numbered(votes)

\* <issuer> useradd <user> <privilege>: zed has no record, eve has one,
\* guest is not logged in.  The line without a privilege goes through msg.
UserAdds == {<<"ann", "zed", "REVOKED">>,
             <<"ann", "eve", "USER">>, <<"ann", "guest", "USER">>,
             <<"ann", "zed", "INVALID">>, <<"oper", "zed", "USER">>,
             <<"bob", "zed", "USER">>, <<"guest", "zed", "USER">>}

\* <issuer> usermod <user> <privilege>.
UserMods == {<<"ann", "bob", "REVOKED">>, <<"ann", "zed", "USER">>,
             <<"ann", "bob", "INVALID">>, <<"ann", "zed", "INVALID">>,
             <<"ann", "guest", "USER">>,
             <<"oper", "eve", "USER">>, <<"bob", "eve", "USER">>,
             <<"guest", "eve", "USER">>}

NextUsers ==
    \/ \E c \in UserAdds :
          Len(tasks) < MaxUserCmds /\ MsgUseradd(c[1], c[2], c[3])
    \/ Len(tasks) < MaxUserCmds /\ msg("ann", <<"useradd", "zed">>)
    \/ \E c \in UserMods :
          Len(tasks) < MaxUserCmds /\ MsgUsermod(c[1], c[2], c[3])
    \/ \E t \in TaskIds : ExecPrivilegeQuery(t)
    \/ \E t \in TaskIds : add_user_privilege(t)
    \/ \E t \in TaskIds, ok \in Outcomes : ExecInsertUser(t, ok)
    \/ \E t \in TaskIds : add_user_inserted(t)
    \/ \E t \in TaskIds : mod_user_privilege(t)
    \/ \E t \in TaskIds, ok \in Outcomes : ExecUpdateUser(t, ok)
    \/ \E t \in TaskIds : mod_user_updated(t)
    \/ \E t \in TaskIds : ExecCountQuery(t)
    \/ \E t \in TaskIds : query_active_user_count(t)

SpecUsers == InitUsers /\ [][NextUsers]_vars

-----------------------------------------------------------------------------
(* SpecRefs: the user bob votes, on poll 1 and with the poll argument      *)
(* `id`, and calls a poll, while the admin ann vetoes poll 1 and revokes   *)
(* bob.                                                                    *)

InitRefs ==
    /\ InitEngine
    /\ InitStore
    /\ votes = {}
    /\ rowids = Numbered(votes)

NextRefs ==
    \/ \E p \in {1, IdColumn} :
          /\ Len(tasks) < MaxRefCmds
          /\ MsgVote("bob", p, [dec |-> "YES", com |-> "pizza"])
    \/ Len(tasks) < MaxRefCmds /\ MsgVcall("bob", "dinner order")
    \/ Len(tasks) < MaxRefCmds /\ MsgVveto("ann", 1, "spam")
    \/ Len(tasks) < MaxRefCmds /\ MsgUsermod("ann", "bob", "REVOKED")
    \/ \E t \in TaskIds : ExecPrivilegeQuery(t)
    \/ \E t \in TaskIds : vote_privilege(t)
    \/ \E t \in TaskIds : ExecPollQuery(t)
    \/ \E t \in TaskIds : vote_status(t)
    \/ \E t \in TaskIds : ExecVotesQuery(t)
    \/ \E t \in TaskIds : vote_lookup(t)
    \/ \E t \in TaskIds, ok \in Outcomes : ExecInsertVote(t, ok)
    \/ \E t \in TaskIds : vote_inserted(t)
    \/ \E t \in TaskIds : vote_timeout(t)
    \/ \E t \in TaskIds : vote_call_privilege(t)
    \/ \E t \in TaskIds : vote_call_auth(t)
    \/ \E t \in TaskIds, ok \in Outcomes : ExecInsertPoll(t, ok)
    \/ \E t \in TaskIds : vote_call_inserted(t)
    \/ \E t \in TaskIds : ExecMaxId(t)
    \/ \E t \in TaskIds : vote_call_announce(t)
    \/ \E t \in TaskIds : vote_veto_privilege(t)
    \/ \E t \in TaskIds : vote_veto_auth(t)
    \/ \E t \in TaskIds : vote_veto_status(t)
    \/ \E t \in TaskIds, ok \in Outcomes : ExecUpdatePollVeto(t, ok)
    \/ \E t \in TaskIds : vote_veto_done(t)
    \/ \E t \in TaskIds : mod_user_privilege(t)
    \/ \E t \in TaskIds, ok \in Outcomes : ExecUpdateUser(t, ok)
    \/ \E t \in TaskIds : mod_user_updated(t)
    \/ \E t \in TaskIds : ExecCountQuery(t)
    \/ \E t \in TaskIds : query_active_user_count(t)

SpecRefs == InitRefs /\ [][NextRefs]_vars

-----------------------------------------------------------------------------
(* SpecMsg: lines of the channel as msg receives them, well formed and     *)
(* not, from the admin ann and the user bob, who has voted YES on poll 1.  *)

InitMsg ==
    /\ InitEngine
    /\ InitStore
    /\ votes = SeedVotes
    /\ rowids = Numbered(votes)

\* Who sends which line, as tokens.
MsgLines ==
    {<<"ann", <<>>>>,
     <<"ann", <<"useradd">>>>, <<"ann", <<"useradd", "zed">>>>,
     <<"ann", <<"useradd", "zed", "boss">>>>,
     <<"ann", <<"useradd", "zed", "user", "now">>>>,
     <<"ann", <<"usermod", "bob">>>>,
     <<"ann", <<"usermod", "bob", "revoked">>>>,
     <<"bob", <<"vcall">>>>, <<"bob", <<"vcall", "dinner", "order">>>>,
     <<"bob", <<"vyes">>>>, <<"bob", <<"vno">>>>, <<"bob", <<"vabstain">>>>,
     <<"bob", <<"vno", "1", "changed", "mind">>>>,
     <<"ann", <<"vyes", "1">>>>,
     <<"ann", <<"vveto">>>>, <<"ann", <<"vveto", "1", "spam">>>>,
     <<"bob", <<"vcancel">>>>, <<"bob", <<"vcancel", "1">>>>,
     <<"bob", <<"yes">>>>}

NextMsg ==
    \/ \E c \in MsgLines : Len(tasks) < MaxMsgCmds /\ msg(c[1], c[2])
    \/ \E t \in TaskIds : ExecPrivilegeQuery(t)
    \/ \E t \in TaskIds : vote_privilege(t)
    \/ \E t \in TaskIds : ExecPollQuery(t)
    \/ \E t \in TaskIds : vote_status(t)
    \/ \E t \in TaskIds : ExecVotesQuery(t)
    \/ \E t \in TaskIds : vote_lookup(t)
    \/ \E t \in TaskIds, ok \in Outcomes : ExecInsertVote(t, ok)
    \/ \E t \in TaskIds : vote_inserted(t)
    \/ \E t \in TaskIds : vote_timeout(t)
    \/ \E op \in background, ok \in Outcomes : ExecUpdateVote(op, ok)
    \/ \E t \in TaskIds : vote_call_privilege(t)
    \/ \E t \in TaskIds : vote_call_auth(t)
    \/ \E t \in TaskIds, ok \in Outcomes : ExecInsertPoll(t, ok)
    \/ \E t \in TaskIds : vote_call_inserted(t)
    \/ \E t \in TaskIds : ExecMaxId(t)
    \/ \E t \in TaskIds : vote_call_announce(t)
    \/ \E t \in TaskIds : vote_veto_privilege(t)
    \/ \E t \in TaskIds : vote_veto_auth(t)
    \/ \E t \in TaskIds : vote_veto_status(t)
    \/ \E t \in TaskIds, ok \in Outcomes : ExecUpdatePollVeto(t, ok)
    \/ \E t \in TaskIds : vote_veto_done(t)
    \/ \E t \in TaskIds : vote_cancel_poll(t)
    \/ \E t \in TaskIds : vote_cancel_auth(t)
    \/ \E t \in TaskIds, ok \in Outcomes : ExecUpdatePollStatus(t, ok)
    \/ \E t \in TaskIds : vote_cancel_done(t)
    \/ \E t \in TaskIds : add_user_privilege(t)
    \/ \E t \in TaskIds, ok \in Outcomes : ExecInsertUser(t, ok)
    \/ \E t \in TaskIds : add_user_inserted(t)
    \/ \E t \in TaskIds : mod_user_privilege(t)
    \/ \E t \in TaskIds, ok \in Outcomes : ExecUpdateUser(t, ok)
    \/ \E t \in TaskIds : mod_user_updated(t)
    \/ \E t \in TaskIds : ExecCountQuery(t)
    \/ \E t \in TaskIds : query_active_user_count(t)

SpecMsg == InitMsg /\ [][NextMsg]_vars

-----------------------------------------------------------------------------
(* SpecScenario: a channel whose database is new.  The transport admin     *)
(* oper adds a user, who calls a poll, votes on it, votes again and        *)
(* answers yes; each line is sent when the handlers of the lines before    *)
(* it have ended, the answer while the second vote waits for it.           *)

InitScenario ==
    /\ InitEngine
    /\ users = [a \in Auths |-> Absent]
    /\ names = [a \in Auths |-> "-"]
    /\ polls = <<>>
    /\ votes = {}
    /\ rowids = Numbered(votes)
    /\ num_active_users = 0

\* Who the admin adds.
ScenarioUsers == {"bob", "zed", "eve"}

\* The lines of the user U, after the useradd.
Script(U) ==
    <<<<"oper", <<"useradd", U>>>>,
      <<U, <<"vcall", "lunch", "order">>>>,
      <<U, <<"vyes", "1", "pizza">>>>,
      <<U, <<"vno", "1", "changed", "mind">>>>,
      <<U, <<"yes">>>>,
      <<U, <<"yes">>>>>>

\* The handlers of the lines received have ended, but for a vote that
\* waits for its answer.
Settled ==
    \A t \in TaskIds : tasks[t].pc \in {"done", "confirm_wait"}

NextScenario ==
    \/ \E U \in ScenarioUsers :
          /\ tasks = <<>>
          /\ msg(Script(U)[1][1], Script(U)[1][2])
    \/ /\ tasks # <<>> /\ Len(tasks) < MaxScenarioCmds /\ Settled
       /\ LET c == Script(tasks[1].text)[Len(tasks) + 1]
          IN  msg(c[1], c[2])
    \/ \E t \in TaskIds : ExecPrivilegeQuery(t)
    \/ \E t \in TaskIds : add_user_privilege(t)
    \/ \E t \in TaskIds, ok \in Outcomes : ExecInsertUser(t, ok)
    \/ \E t \in TaskIds : add_user_inserted(t)
    \/ \E t \in TaskIds : vote_call_privilege(t)
    \/ \E t \in TaskIds : vote_call_auth(t)
    \/ \E t \in TaskIds, ok \in Outcomes : ExecInsertPoll(t, ok)
    \/ \E t \in TaskIds : vote_call_inserted(t)
    \/ \E t \in TaskIds : ExecMaxId(t)
    \/ \E t \in TaskIds : vote_call_announce(t)
    \/ \E t \in TaskIds : vote_privilege(t)
    \/ \E t \in TaskIds : ExecPollQuery(t)
    \/ \E t \in TaskIds : vote_status(t)
    \/ \E t \in TaskIds : ExecVotesQuery(t)
    \/ \E t \in TaskIds : vote_lookup(t)
    \/ \E t \in TaskIds, ok \in Outcomes : ExecInsertVote(t, ok)
    \/ \E t \in TaskIds : vote_inserted(t)
    \/ \E t \in TaskIds : vote_timeout(t)
    \/ \E op \in background, ok \in Outcomes : ExecUpdateVote(op, ok)

SpecScenario == InitScenario /\ [][NextScenario]_vars

-----------------------------------------------------------------------------
(* Properties of the vote ledger, under SpecVote.                          *)

IsVote(t) == tasks[t].kind = "vote"

TheRow(t) == VoteRow(tasks[t].poll, tasks[t].auth, tasks[t].dec, tasks[t].text)

\* C1: in every reachable state there is at most one Votes row per
\* (poll_id, user), also when two vote commands of one voter both read the
\* table before either writes.
C1_OneRowPerVoter ==
    \A r1, r2 \in votes :
        (r1.poll_id = r2.poll_id /\ r1.user = r2.user) => r1 = r2

\* Two votes of one voter on one poll both found no row; one has inserted
\* and the other's INSERT is still queued.
C1_Witness ==
    \E t1, t2 \in TaskIds :
        /\ t1 # t2 /\ IsVote(t1) /\ IsVote(t2)
        /\ tasks[t1].auth = tasks[t2].auth /\ tasks[t1].poll = tasks[t2].poll
        /\ tasks[t1].pc = "done" /\ tasks[t1].res = "ok"
        /\ tasks[t1].answer = "-"
        /\ tasks[t2].pc = "insert_q"
        /\ TheRow(t1) \in votes

\* C2: a Votes row, once there, is never removed, and its decision and
\* comment change only to those of a re-vote of that voter on that poll
\* which the voter answered with yes.
C2_RowChangesOnlyOnYes ==
    [][\A r \in votes :
          r \notin votes' =>
             \E t \in TaskIds :
                /\ IsVote(t) /\ tasks[t].answer = "yes"
                /\ tasks[t].auth = r.user /\ tasks[t].poll = r.poll_id
                /\ TheRow(t) \in votes']_vars

\* A re-vote left unanswered has timed out and left the row alone, and a
\* later re-vote answered with yes has changed it.
C2_Witness ==
    \E t1, t2 \in TaskIds :
        /\ IsVote(t1) /\ tasks[t1].answer = "timeout" /\ t1 < t2
        /\ IsVote(t2) /\ tasks[t2].answer = "yes" /\ tasks[t2].res = "ok"
        /\ tasks[t2].previous.vote = "YES" /\ tasks[t2].dec # "YES"
        /\ TheRow(t2) \in votes

\* C3: when the voter's latest re-vote on a poll was answered with yes
\* while it was waiting (within its deadline), then, once the handler has
\* ended and no UPDATE of it is queued or has failed, the row holds the
\* decision and comment of that re-vote.
C3_ConfirmedRevoteApplied ==
    \A t \in TaskIds :
        ( /\ IsVote(t) /\ tasks[t].asked /\ tasks[t].pc = "done"
          /\ tasks[t].res # "error"
          /\ \A op \in background : op.task # t
          /\ \A t2 \in TaskIds :
                (t2 > t /\ IsVote(t2)) => tasks[t2].answer # "yes" )
        => TheRow(t) \in votes


-----------------------------------------------------------------------------
(* The confirmation timeout, under SpecTimeout.                            *)

\* C4: a re-vote that waits for its confirmation and gets no answer
\* eventually times out: its handler ends, the voter is told
\* "Confirmation timed out", the voter's pending entry is gone and the
\* Votes row is the one it was.
C4_PendingTimesOut ==
    \A t \in 1 .. MaxTimeoutCmds :
        (t \in TaskIds /\ tasks[t].pc = "confirm_wait")
        ~> ( /\ t \in TaskIds /\ tasks[t].pc = "done"
             /\ tasks[t].note = "Confirmation timed out"
             /\ pending_confirmations[tasks[t].auth] # t
             /\ votes = SeedVotes )

-----------------------------------------------------------------------------
(* The privilege gates, under SpecGate, where the Users table stays as it  *)
(* was seeded.                                                             *)

Stored(auth) == IF auth = None THEN "INVALID" ELSE PrivilegeOf(users[auth])

\* C5: an issuer whose stored privilege is not USER or ADMIN (revoked,
\* never registered or not authenticated) is the creator of no new poll,
\* has no Votes row but the one left from before, unchanged, and no pending
\* confirmation; the vote and vote_call handlers of such an issuer end
\* with the refusal.
C5_UnprivilegedChangeNothing ==
    /\ \A i \in 1 .. Len(polls) :
          i > Len(SeedPolls) => Stored(polls[i].creator) \in {"USER", "ADMIN"}
    /\ \A r \in votes :
          Stored(r.user) \notin {"USER", "ADMIN"} => r \in GateVotes
    /\ \A r \in GateVotes :
          Stored(r.user) \notin {"USER", "ADMIN"} => r \in votes
    /\ \A a \in Auths :
          pending_confirmations[a] # 0 => Stored(a) \in {"USER", "ADMIN"}
    /\ \A t \in TaskIds :
          ( /\ tasks[t].kind \in {"vote", "call"}
            /\ Stored(tasks[t].auth) \notin {"USER", "ADMIN"} )
          => /\ tasks[t].pc \in {"priv_q", "priv_r", "auth_w", "done"}
             /\ tasks[t].pc = "done" =>
                   tasks[t].note \in {"You are not allowed to vote",
                                      "You are not allowed to create votes"}

\* The revoked eve was refused a vote and the unauthenticated guest a poll.
C5_Witness ==
    \E t1, t2 \in TaskIds :
        /\ tasks[t1].kind = "vote" /\ tasks[t1].privilege = "REVOKED"
        /\ tasks[t1].note = "You are not allowed to vote"
        /\ tasks[t2].kind = "call" /\ tasks[t2].privilege = "INVALID"
        /\ tasks[t2].note = "You are not allowed to create votes"
        /\ polls = SeedPolls /\ votes = GateVotes

\* C6: a poll is vetoed only by an issuer whose stored privilege is ADMIN;
\* the veto of any other issuer, a transport admin included, ends with
\* "Only admins can VETO polls" before it reaches the lock or the table.
C6_VetoNeedsStoredAdmin ==
    /\ \A i \in 1 .. Len(polls) :
          /\ polls[i].status = "VETOED" => Stored(polls[i].vetoed_by) = "ADMIN"
          /\ polls[i].status # "VETOED" =>
                polls[i].vetoed_by = None /\ polls[i].veto_reason = None
    /\ \A t \in TaskIds :
          (tasks[t].kind = "veto" /\ Stored(tasks[t].auth) # "ADMIN")
          => /\ tasks[t].pc \in {"priv_q", "priv_r", "done"}
             /\ tasks[t].pc = "done" =>
                   tasks[t].note = "Only admins can VETO polls"

\* The transport admin oper, a stored USER, was refused the veto and the
\* poll is as it was.
C6_Witness ==
    \E t \in TaskIds :
        /\ tasks[t].kind = "veto" /\ is_user_admin(tasks[t].nick)
        /\ tasks[t].privilege = "USER"
        /\ tasks[t].note = "Only admins can VETO polls"
        /\ polls[1] = SeedPolls[1]

-----------------------------------------------------------------------------
(* Veto and cancel, under SpecIds; the lock's block under SpecPoll.        *)

Terminal == {"CANCELED", "VETOED"}

\* C7: a step sets a poll to VETOED, or changes its vetoed_by or
\* veto_reason, only when the poll is RUNNING; a veto that found the poll
\* VETOED or CANCELED ends by telling the issuer that it is not running.
C7_VetoOnlyWhileRunning ==
    /\ [][\A i \in 1 .. Len(polls) :
             ( \/ polls'[i].vetoed_by # polls[i].vetoed_by
               \/ polls'[i].veto_reason # polls[i].veto_reason
               \/ polls'[i].status = "VETOED" /\ polls[i].status # "VETOED" )
             => polls[i].status = "RUNNING"]_vars
    /\ [](\A t \in TaskIds :
             ( /\ tasks[t].kind = "veto" /\ tasks[t].pc = "done"
               /\ tasks[t].res \in Terminal )
             => tasks[t].note = "isn't running")

\* C8: a step sets a poll to CANCELED only when the poll is RUNNING and the
\* step is the UPDATE of a vote_cancel whose statement selects the poll and
\* whose issuer's identity equals the creator's up to letter case; and
\* vote_cancel tells an issuer "Only the creator of a poll can cancel it"
\* only when the two differ in more than letter case.
C8_CancelOnlyByCreator ==
    /\ [][\A i \in 1 .. Len(polls) :
             (polls'[i].status = "CANCELED" /\ polls[i].status # "CANCELED")
             => /\ polls[i].status = "RUNNING"
                /\ \E t \in TaskIds :
                      /\ tasks[t].kind = "cancel"
                      /\ i \in PollsWhere(tasks[t].poll)
                      /\ tasks[t].pc = "cancel_q" /\ tasks'[t].pc = "cancel_r"
                      /\ tasks[t].auth # None
                      /\ casefold(tasks[t].auth) = casefold(polls[i].creator)
         ]_vars
    /\ [](\A t \in TaskIds :
             ( /\ tasks[t].kind = "cancel"
               /\ tasks[t].note = "Only the creator of a poll can cancel it" )
             => casefold(tasks[t].auth) # casefold(polls[tasks[t].poll].creator))

\* C9: a poll's status changes only from RUNNING, and only to CANCELED or
\* VETOED; no poll is ever PASSED, TIED or FAILED; no poll is removed.
C9_TerminalStatusAbsorbing ==
    /\ [][/\ Len(polls') >= Len(polls)
          /\ \A i \in 1 .. Len(polls) :
                polls'[i].status # polls[i].status
                => /\ polls[i].status = "RUNNING"
                   /\ polls'[i].status \in Terminal]_vars
    /\ [](\A i \in 1 .. Len(polls) :
             polls[i].status \in {"RUNNING", "CANCELED", "VETOED"})

\* The handler is inside its `with self._lock:` block.
InBlock(t) ==
    \/ /\ tasks[t].kind = "call"
       /\ tasks[t].pc \in {"insert_poll_q", "insert_poll_r", "maxid_q",
                           "maxid_r"}
    \/ /\ tasks[t].kind = "veto"
       /\ tasks[t].pc \in {"status_q", "status_r", "veto_q", "veto_r"}
    \/ /\ tasks[t].kind = "cancel"
       /\ tasks[t].pc \in {"status_q", "status_r", "auth_w", "cancel_q",
                           "cancel_r"}

\* C10: at most one vote_call, vote_veto or vote_cancel is inside its
\* block at any time.
C10_OneHandlerInBlock ==
    \A t1, t2 \in TaskIds : (InBlock(t1) /\ InBlock(t2)) => t1 = t2

\* A second handler reached the lock while the first was inside its block
\* with a storage call queued.
C10_Witness ==
    \E t1, t2 \in TaskIds :
        /\ InBlock(t1)
        /\ tasks[t1].pc \in {"insert_poll_q", "status_q", "veto_q", "cancel_q"}
        /\ tasks[t2].pc = "acquire" /\ blocked = t2

-----------------------------------------------------------------------------
(* The lock and the reactor, under SpecPoll.                               *)

\* A vote_call, vote_veto or vote_cancel that has not ended.
InFlight(t) ==
    tasks[t].kind \in {"call", "veto", "cancel"} /\ tasks[t].pc # "done"

\* C11: no reachable state is a deadlock: as long as a vote_call, vote_veto
\* or vote_cancel has not ended, the reactor or a pool thread can take a
\* step of some handler, so that a second command accepted while the first
\* is suspended inside its block can still come to its end.
C11_NoDeadlock ==
    (\E t \in TaskIds : InFlight(t)) => ENABLED ProgressPoll

\* The "Poll #p vetoed" and "Poll #p cancelled" lines of the channel.
Broadcasts(p) ==
    {i \in 1 .. Len(channel) :
        channel[i].kind \in {"vetoed", "cancelled"} /\ channel[i].poll = p}

\* C12: when an admin's veto and the creator's cancel of one poll that was
\* RUNNING have both been issued and nothing more can be done for either,
\* with no storage failure on the way, exactly one of the two broadcasts is
\* in the channel, it is the one of the command whose status the poll holds,
\* and both commands have ended.
C12_ExactlyOneSucceeds ==
    \A t1, t2 \in TaskIds :
        ( /\ tasks[t1].kind = "veto" /\ Stored(tasks[t1].auth) = "ADMIN"
          /\ tasks[t2].kind = "cancel" /\ tasks[t2].poll = tasks[t1].poll
          /\ tasks[t1].poll \in 1 .. Len(SeedPolls)
          /\ tasks[t2].auth # None
          /\ casefold(tasks[t2].auth) = casefold(SeedPolls[tasks[t1].poll].creator)
          /\ tasks[t1].res # "error" /\ tasks[t2].res # "error"
          /\ ~ ENABLED ProgressPoll )
        => LET p == tasks[t1].poll
           IN  /\ tasks[t1].pc = "done" /\ tasks[t2].pc = "done"
               /\ Cardinality(Broadcasts(p)) = 1
               /\ \A i \in Broadcasts(p) :
                     polls[p].status = IF channel[i].kind = "vetoed"
                                       THEN "VETOED" ELSE "CANCELED"

\* The "New poll #id by ..." lines of the channel.
Announced == {i \in 1 .. Len(channel) : channel[i].kind = "New poll"}

\* C13: the id a vote_call announces is the id of a row created by a
\* vote_call and carrying that call's creator and description; no two
\* calls announce the same id; and from a call's INSERT to its
\* announcement the highest id of Polls is that of its own row, so that
\* the id it reads back is its own.
C13_AnnouncedIdIsOwn ==
    /\ \A i \in Announced :
          LET t == channel[i].task
              p == channel[i].poll
          IN  /\ p \in (Len(SeedPolls) + 1) .. Len(polls)
              /\ polls[p].creator = tasks[t].auth
              /\ polls[p].description = tasks[t].text
    /\ \A i, j \in Announced : channel[i].poll = channel[j].poll => i = j
    /\ \A t \in TaskIds :
          ( /\ tasks[t].kind = "call" /\ tasks[t].res = "ok"
            /\ tasks[t].pc \in {"insert_poll_r", "maxid_q", "maxid_r"} )
          => /\ polls[Len(polls)].creator = tasks[t].auth
             /\ polls[Len(polls)].description = tasks[t].text
             /\ tasks[t].pc = "maxid_r" => tasks[t].poll = Len(polls)
             /\ \A i \in Announced : channel[i].poll < Len(polls)

\* Two calls in flight together: the one issued later has announced its
\* poll, the one issued first has since inserted and read back the next id.
C13_Witness ==
    \E t1, t2 \in TaskIds :
        /\ t2 < t1
        /\ tasks[t1].kind = "call" /\ tasks[t1].pc = "done"
        /\ \E i \in Announced : channel[i].task = t1 /\ channel[i].poll = 2
        /\ tasks[t2].kind = "call" /\ tasks[t2].pc = "maxid_r"
        /\ tasks[t2].poll = 3 /\ tasks[t2].auth # tasks[t1].auth

-----------------------------------------------------------------------------
(* First votes of different users, under SpecBallot.                       *)

\* The "<voter> voted <decision> for poll #p" lines of the channel.
Voted == {i \in 1 .. Len(channel) : channel[i].kind = "voted"}

\* C14: the only vote command of an authorized user on the running poll,
\* once its handler has ended, has stored its row whatever the other
\* user's vote did meanwhile: the user's one row on the poll holds that
\* command's decision and comment, and the vote was announced.
C14_BothFirstVotesStored ==
    \A t \in TaskIds :
        ( /\ IsVote(t) /\ tasks[t].pc = "done"
          /\ Stored(tasks[t].auth) \in {"USER", "ADMIN"}
          /\ \A u \in TaskIds \ {t} :
                ~(IsVote(u) /\ tasks[u].auth = tasks[t].auth
                            /\ tasks[u].poll = tasks[t].poll) )
        => /\ tasks[t].res = "ok"
           /\ VotesOf(tasks[t].poll, tasks[t].auth) = {TheRow(t)}
           /\ \E i \in Voted : channel[i].task = t

\* Both users' votes are stored, and the vote issued later was announced
\* first: the two handlers ran interleaved.
C14_Witness ==
    \E t1, t2 \in TaskIds :
        /\ t1 < t2 /\ IsVote(t1) /\ IsVote(t2)
        /\ tasks[t1].auth # tasks[t2].auth /\ tasks[t1].poll = tasks[t2].poll
        /\ tasks[t1].pc = "done" /\ tasks[t2].pc = "done"
        /\ TheRow(t1) \in votes /\ TheRow(t2) \in votes
        /\ \E i, j \in Voted :
              i < j /\ channel[i].task = t2 /\ channel[j].task = t1

-----------------------------------------------------------------------------
(* The pending confirmations, under SpecVote.                              *)

\* C15: a voter's entry of the pending map is the re-vote the voter
\* issued last, and it stays the entry until that re-vote itself is
\* answered or reaches its own deadline: no step removes the entry while
\* the re-vote it stands for goes on waiting, whatever becomes of the
\* re-votes it replaced, so that a yes sent before its deadline reaches it.
C15_EntryStaysUntilOwnEnd ==
    [][\A a \in Auths :
          (pending_confirmations[a] # 0 /\ pending_confirmations'[a] = 0)
          => tasks'[pending_confirmations[a]].pc = "done"]_vars

\* A re-vote of the voter is waiting for its confirmation.
Awaiting(a) ==
    \E t \in TaskIds :
        IsVote(t) /\ tasks[t].auth = a /\ tasks[t].pc = "confirm_wait"

\* C16: in every state where no re-vote of a voter is waiting for its
\* confirmation, the pending map has no entry for that voter.
C16_NoEntryWithoutRevote ==
    \A a \in Auths : ~Awaiting(a) => pending_confirmations[a] = 0

\* One re-vote of bob has timed out and another was declined; none is
\* waiting and bob has no entry.
C16_Witness ==
    \E t1, t2 \in TaskIds :
        /\ IsVote(t1) /\ tasks[t1].answer = "timeout"
        /\ IsVote(t2) /\ tasks[t2].answer = "no"
        /\ tasks[t1].auth = "bob" /\ tasks[t2].auth = "bob"
        /\ ~Awaiting("bob") /\ pending_confirmations["bob"] = 0

\* The "<voter> changed vote from .. to .." lines of the channel.
Changed == {i \in 1 .. Len(channel) : channel[i].kind = "changed"}

\* C17: the step in which a waiting re-vote is answered no ends its
\* handler, removes the voter's entry, and leaves the Votes table, the
\* channel and the updates handed to the pool as they were; every update
\* handed to the pool and every change-of-vote line belongs to a re-vote
\* answered yes.
C17_DeclineChangesNothing ==
    /\ [][\A t \in TaskIds :
             (IsVote(t) /\ tasks[t].answer = "-" /\ tasks'[t].answer = "no")
             => /\ tasks'[t].pc = "done"
                /\ pending_confirmations'[tasks[t].auth] = 0
                /\ votes' = votes
                /\ channel' = channel
                /\ background' = background]_vars
    /\ [](/\ \A op \in background : tasks[op.task].answer = "yes"
          /\ \A i \in Changed : tasks[channel[i].task].answer = "yes")

\* bob declined a re-vote: his row is the old one, nothing was announced,
\* nothing is queued and his entry is gone.
C17_Witness ==
    \E t \in TaskIds :
        /\ IsVote(t) /\ tasks[t].answer = "no" /\ tasks[t].pc = "done"
        /\ tasks[t].previous = [vote |-> "YES", comment |-> "pizza"]
        /\ VotesOf(tasks[t].poll, tasks[t].auth) = SeedVotes
        /\ channel = <<>> /\ background = {}
        /\ pending_confirmations[tasks[t].auth] = 0

-----------------------------------------------------------------------------
(* A bare yes or no, under SpecAnswer.                                     *)

\* C18: a yes or no from an issuer who is not logged in or whose identity
\* has no entry in the pending map is answered "Nothing to confirm", and
\* the step leaves Users, Polls, Votes, the pending map and its timers, the
\* lock, the active-user counter, the channel and the pool's queue as they
\* were and ends no handler.
C18_BareAnswerChangesNothing ==
    [][( /\ Len(tasks') = Len(tasks) + 1
         /\ tasks'[Len(tasks')].kind = "confirm"
         /\ \/ tasks'[Len(tasks')].auth = None
            \/ pending_confirmations[tasks'[Len(tasks')].auth] = 0 )
       => /\ tasks'[Len(tasks')].note = "Nothing to confirm"
          /\ UNCHANGED <<users, names, polls, votes, pending_confirmations,
                         timers, lock, blocked, num_active_users, channel,
                         background>>
          /\ \A t \in TaskIds : tasks'[t].pc = tasks[t].pc]_vars

\* BOB's yes was answered "Nothing to confirm" while bob's re-vote waits on,
\* still bob's entry, and bob's row is the old one.
C18_Witness ==
    \E c, t \in TaskIds :
        /\ tasks[c].kind = "confirm" /\ tasks[c].auth = "BOB"
        /\ tasks[c].text = "yes" /\ tasks[c].note = "Nothing to confirm"
        /\ t < c /\ IsVote(t) /\ tasks[t].pc = "confirm_wait"
        /\ pending_confirmations["bob"] = t
        /\ votes = SeedVotes /\ background = {}

-----------------------------------------------------------------------------
(* What the lock is held across, under SpecPoll.                           *)

\* C19: a handler that waits for the transport's answer (bot.get_auth) or
\* for a re-vote confirmation does not hold the lock.
C19_LockNotHeldAcrossWaits ==
    \A t \in TaskIds :
        tasks[t].pc \in {"auth_w", "confirm_wait"} => lock # t

\* C20: the lock is held only by a vote_call, vote_veto or vote_cancel
\* that is inside its block; when none of the three is in flight the lock
\* is free.
C20_LockReleasedOnExit ==
    /\ lock # 0 => (lock \in TaskIds /\ InBlock(lock))
    /\ (\A t \in TaskIds : ~InFlight(t)) => lock = 0

\* A cancel refused as not the creator's and a veto or cancel whose UPDATE
\* failed in the store have both ended, and the lock is free.
C20_Witness ==
    \E t1, t2 \in TaskIds :
        /\ tasks[t1].pc = "done"
        /\ tasks[t1].note = "Only the creator of a poll can cancel it"
        /\ tasks[t2].pc = "done"
        /\ tasks[t2].note \in {"Error vetoing poll", "Error cancelling poll"}
        /\ lock = 0

-----------------------------------------------------------------------------
(* User management, under SpecUsers.                                       *)

Manages(t) == tasks[t].kind \in {"add", "mod"}

\* The task whose step this is.
Acting(t) == t \in TaskIds /\ tasks'[t] # tasks[t]

\* C21: a step changes the Users table or the active-user counter only as
\* a step of an add_user or mod_user whose issuer is a transport admin or
\* was read as ADMIN; an add_user or mod_user of any other issuer ends by
\* telling the issuer "Insufficient permissions".
C21_OnlyAdminsManage ==
    [][/\ (users' # users \/ names' # names
              \/ num_active_users' # num_active_users)
          => \E t \in TaskIds :
                /\ Acting(t) /\ Manages(t)
                /\ tasks[t].is_admin \/ tasks[t].privilege = "ADMIN"
       /\ \A t \in TaskIds :
             (/\ Manages(t) /\ tasks[t].pc # "done" /\ tasks'[t].pc = "done"
              /\ ~tasks'[t].is_admin /\ tasks'[t].privilege # "ADMIN")
             => tasks'[t].note = "Insufficient permissions"
       /\ \A t \in DOMAIN tasks' \ TaskIds :
             (/\ tasks'[t].kind \in {"add", "mod"} /\ tasks'[t].pc = "done")
             => /\ tasks'[t].auth = None
                /\ ~tasks'[t].is_admin
                /\ tasks'[t].note = "Insufficient permissions"]_vars

\* The user bob was refused and the transport admin oper, stored as USER,
\* has added zed.
C21_Witness ==
    \E t1, t2 \in TaskIds :
        /\ tasks[t1].nick = "bob" /\ tasks[t1].kind = "add"
        /\ tasks[t1].pc = "done"
        /\ tasks[t1].note = "Insufficient permissions"
        /\ tasks[t2].nick = "oper" /\ tasks[t2].kind = "add"
        /\ tasks[t2].pc = "done"
        /\ tasks[t2].note = "Successfully added User"
        /\ users["zed"] = "USER" /\ users["oper"] = "USER"

\* C22: the INSERT of an add_user whose target already has a record
\* fails and changes neither the record's privilege nor its name; the
\* handler of a failed INSERT ends by telling the issuer that the user
\* could not be added, and does not change the counter.
C22_AddExistingFails ==
    [][\A t \in TaskIds :
          /\ (/\ Acting(t) /\ tasks[t].kind = "add"
              /\ tasks[t].pc = "insert_user_q"
              /\ users[tasks[t].target] # Absent)
             => /\ users' = users /\ names' = names
                /\ tasks'[t].res = "error"
          /\ (/\ Acting(t) /\ tasks[t].kind = "add"
              /\ tasks[t].pc = "insert_user_r" /\ tasks[t].res = "error")
             => /\ tasks'[t].pc = "done"
                /\ tasks'[t].note = "Couldn't add user"
                /\ num_active_users' = num_active_users
                /\ users' = users /\ names' = names]_vars

\* The admin ann has asked to add eve, who has a record as REVOKED, and was
\* told that it failed.
C22_Witness ==
    \E t \in TaskIds :
        /\ tasks[t].nick = "ann" /\ tasks[t].kind = "add"
        /\ tasks[t].text = "eve" /\ tasks[t].pc = "done"
        /\ tasks[t].note = "Couldn't add user"
        /\ users["eve"] = "REVOKED" /\ names["eve"] = "eve"
        /\ num_active_users = 3

\* C23: a mod_user whose target has no record does not end with the
\* issuer told that the modification succeeded.
C23_ModAbsentFails ==
    [][\A t \in TaskIds :
          (/\ Acting(t) /\ tasks[t].kind = "mod"
           /\ tasks[t].pc = "update_user_r"
           /\ users[tasks[t].target] = Absent)
          => tasks'[t].note # "Successfully modified User"]_vars

\* C24: when no add_user, mod_user or count query is in flight the counter
\* is the number of Users rows with privilege USER or ADMIN.
C24_CounterIsActiveUsers ==
    (\A t \in TaskIds : Manages(t) => tasks[t].pc = "done")
    => num_active_users = ActiveUsers(users)

-----------------------------------------------------------------------------
(* What the rows refer to, under SpecRefs.                                 *)

\* C25: every Votes row is of a poll that Polls holds and of a user that
\* Users holds, and the creator of every Polls row, and its vetoed_by when
\* set, is a user that Users holds.
C25_ReferencesExist ==
    /\ \A r \in votes :
          /\ r.poll_id \in 1 .. Len(polls)
          /\ users[r.user] # Absent
    /\ \A i \in 1 .. Len(polls) :
          /\ users[polls[i].creator] # Absent
          /\ polls[i].vetoed_by # None => users[polls[i].vetoed_by] # Absent

\* What a handler tells its issuer when a storage call raised.
FailureNotices == {"Couldn't add user", "Couldn't modify user",
                   "Error vetoing poll", "Error cancelling poll"}

\* The issuer of t, or the channel, has been told that t failed.
Told(t) ==
    \/ tasks[t].note \in FailureNotices
    \/ \E i \in 1 .. Len(channel) :
          channel[i].task = t /\ channel[i].kind = "Could not create new poll"

\* C26: a handler that has ended after one of its storage calls raised has
\* told its issuer or the channel of the failure.
C26_StorageFailureIsTold ==
    \A t \in TaskIds :
        (tasks[t].pc = "done" /\ tasks[t].res = "error") => Told(t)

-----------------------------------------------------------------------------
(* Malformed lines, under SpecMsg.                                         *)

\* The names of the privileges, as a line may spell them.
PrivilegeNames == {"revoked", "user", "admin", "invalid",
                   "REVOKED", "USER", "ADMIN", "INVALID", "User"}

\* useradd with a wrong argument count or an unknown privilege name,
\* usermod without a privilege or with an unknown one, vcall without a
\* description, a vote, veto or cancel without a poll id.
Malformed(tokens) ==
    /\ tokens # <<>>
    /\ \/ /\ tokens[1] = "useradd"
          /\ \/ Len(tokens) \notin {2, 3}
             \/ Len(tokens) = 3 /\ tokens[3] \notin PrivilegeNames
       \/ /\ tokens[1] = "usermod"
          /\ \/ Len(tokens) < 3
             \/ Len(tokens) = 3 /\ tokens[3] \notin PrivilegeNames
       \/ tokens[1] = "vcall" /\ Len(tokens) = 1
       \/ /\ tokens[1] \in {"vyes", "vno", "vabstain", "vveto", "vcancel"}
          /\ Len(tokens) = 1

MalformedNotices == {"Incorrect call for useradd",
                     "Unknown privilege, aborting...",
                     "Incorrect call for usermod",
                     "Please add a description", "No poll ID given"}

\* C27: the step in which msg receives a malformed line sends a notice to
\* the issuer, starts no handler and leaves the Users, Polls and Votes
\* rows, the pending confirmations and the counter as they were.
C27_MalformedIsRefused ==
    [][\A c \in MsgLines :
          (Malformed(c[2]) /\ msg(c[1], c[2]))
          => /\ Len(tasks') = Len(tasks) + 1
             /\ SubSeq(tasks', 1, Len(tasks)) = tasks
             /\ tasks'[Len(tasks')].nick = c[1]
             /\ tasks'[Len(tasks')].pc = "done"
             /\ tasks'[Len(tasks')].note \in MalformedNotices
             /\ UNCHANGED <<users, names, polls, votes,
                            pending_confirmations, num_active_users,
                            background>>]_vars

\* A useradd with an unknown privilege and a vote without a poll id have
\* both been refused.
C27_Witness ==
    \E t1, t2 \in TaskIds :
        /\ tasks[t1].kind = "msg" /\ tasks[t1].text = "useradd zed boss"
        /\ tasks[t1].note = "Unknown privilege, aborting..."
        /\ tasks[t2].kind = "msg" /\ tasks[t2].text = "vyes"
        /\ tasks[t2].note = "No poll ID given"
        /\ users = SeedUsers /\ votes = SeedVotes /\ polls = SeedPolls

-----------------------------------------------------------------------------
(* The scenario of a new channel, under SpecScenario.                      *)

\* The five lines have been handled to their end, the UPDATE included, no
\* storage call has failed and the answer came before the timeout.
ScenarioDone ==
    /\ Len(tasks) >= 5
    /\ \A t \in 1 .. 5 : tasks[t].pc = "done" /\ tasks[t].res # "error"
    /\ tasks[4].answer = "yes"
    /\ background = {}

\* C28: after useradd U by the admin and, by U, vcall lunch order, vyes 1
\* pizza, vno 1 changed mind and yes, poll 1 is RUNNING, Votes holds the
\* one row (1, U, NO, changed mind), U has no pending confirmation, and
\* the channel has received the announcement of poll 1, U's vote YES on
\* poll 1 and the change from YES to NO, in that order.
C28_Scenario ==
    ScenarioDone =>
        LET U == get_auth(tasks[1].text)
        IN  /\ Len(polls) = 1
            /\ polls[1].status = "RUNNING"
            /\ polls[1].description = "lunch order"
            /\ votes = {VoteRow(1, U, "NO", "changed mind")}
            /\ pending_confirmations[U] = 0
            /\ Len(channel) = 3
            /\ channel[1].kind = "New poll" /\ channel[1].poll = 1
            /\ channel[2].kind = "voted" /\ channel[2].poll = 1
            /\ channel[2].dec = "YES" /\ tasks[channel[2].task].nick = tasks[1].text
            /\ channel[3].kind = "changed" /\ channel[3].poll = 1
            /\ channel[3].old = "YES" /\ channel[3].dec = "NO"

\* The scenario has run to its end for the user zed.
C28_Witness ==
    /\ ScenarioDone
    /\ tasks[1].text = "zed"
    /\ users["zed"] = "USER"
    /\ votes = {VoteRow(1, "zed", "NO", "changed mind")}

-----------------------------------------------------------------------------
(* The moment of the write.                                                *)

\* C29: every Votes row a step creates or changes is of a poll that is
\* RUNNING when the step is taken (SpecGate).
C29_WriteOnlyWhileRunning ==
    [][\A r \in votes' \ votes :
          /\ r.poll_id \in 1 .. Len(polls)
          /\ polls[r.poll_id].status = "RUNNING"]_vars

\* C30: every Votes row a step creates or changes is of a voter whose
\* stored privilege is USER or ADMIN when the step is taken (SpecRefs).
C30_WriteOnlyWhileVoter ==
    [][\A r \in votes' \ votes : users[r.user] \in {"USER", "ADMIN"}]_vars

-----------------------------------------------------------------------------
\* C31: a line of the channel announcing a vote ("voted" or "changed vote
\* from ... to ...") is there only when the INSERT or UPDATE of the task
\* that announced it has been committed: no state holds an announcement
\* whose write failed or has not been run.
C31_AnnouncedIsCommitted ==
    \A i \in 1 .. Len(channel) :
        channel[i].kind \in {"voted", "changed"} =>
            /\ tasks[channel[i].task].res = "ok"
            /\ \A op \in background : op.task # channel[i].task

\* C32: one yes or no resolves at most one waiting re-vote and changes at
\* most one row of Votes: a step takes at most one task out of its wait for
\* an answer, hands at most one UPDATE to the store, and the UPDATE changes
\* at most one row, the one of the poll that was voted on last.
C32_OneAnswerOneRow ==
    [][/\ Cardinality({t \in TaskIds : /\ tasks[t].pc = "confirm_wait"
                                       /\ tasks'[t].pc # "confirm_wait"}) <= 1
       /\ Cardinality(background' \ background) <= 1
       /\ Cardinality(votes \ votes') <= 1
       /\ \A r \in votes \ votes' :
              \E op \in background \ background' : r.poll_id = op.poll_id]_vars

\* C33: in every state a poll has vetoed_by set exactly when its status is
\* VETOED, and vetoed_by is then the identity of the issuer of a vote_veto
\* that passed the ADMIN check.
C33_VetoedByIffVetoed ==
    \A i \in 1 .. Len(polls) :
        /\ polls[i].vetoed_by # None <=> polls[i].status = "VETOED"
        /\ polls[i].status = "VETOED" =>
              \E t \in TaskIds : /\ tasks[t].kind = "veto"
                                 /\ tasks[t].privilege = "ADMIN"
                                 /\ tasks[t].auth = polls[i].vetoed_by

\* C34: vote_cancel asks for ownership and nothing more: the cancel of the
\* creator of a running poll is not refused whatever privilege Users holds
\* for the creator, REVOKED included, and a step sets a poll to CANCELED
\* only for an issuer who is its creator, an ADMIN who is not the creator
\* never being that issuer.
C34_CancelNeedsOnlyOwnership ==
    /\ [][\A t \in TaskIds :
             ( /\ tasks[t].kind = "cancel" /\ tasks[t].pc = "auth_w"
               /\ tasks[t].auth # None
               /\ casefold(tasks[t].auth) = casefold(tasks[t].creator)
               /\ tasks[t].res = "RUNNING"
               /\ tasks'[t].pc # "auth_w" )
             => tasks'[t].pc = "cancel_q"]_vars
    /\ [][\A i \in 1 .. Len(polls) :
             (polls'[i].status = "CANCELED" /\ polls[i].status # "CANCELED")
             => \E t \in TaskIds :
                   /\ tasks[t].kind = "cancel"
                   /\ tasks[t].pc = "cancel_q" /\ tasks'[t].pc = "cancel_r"
                   /\ casefold(tasks[t].auth) = casefold(polls[i].creator)
         ]_vars

-----------------------------------------------------------------------------
(* The Users table and add_user, under SpecUsers.                          *)

\* C35: in every state the privilege of every Users row is REVOKED, USER or
\* ADMIN; a useradd or usermod with the privilege INVALID is refused or its
\* write fails: it does not end as a success, and no step of it changes the
\* Users table or the counter.
C35_NoInvalidStored ==
    /\ [](\A a \in Auths : users[a] \in {Absent, "REVOKED", "USER", "ADMIN"})
    /\ [][\A t \in TaskIds :
             (Acting(t) /\ Manages(t) /\ tasks[t].dec = "INVALID")
             => /\ users' = users /\ names' = names
                /\ num_active_users' = num_active_users
                /\ tasks'[t].note \notin {"Successfully added User",
                                          "Successfully modified User"}]_vars

\* C36: the INSERT of an add_user that commits adds one Users row, of the
\* target and with the requested privilege (USER when the line gave none),
\* and the handler then raises the counter by one and tells the success;
\* no other step of an add_user changes the table or the counter, and an
\* add_user that ends with a refusal or a failure has committed nothing.
C36_AddUserAddsOne ==
    /\ [][/\ (Len(tasks) < MaxUserCmds /\ msg("ann", <<"useradd", "zed">>))
                => tasks'[Len(tasks')].dec = "USER"
          /\ Len(tasks') > Len(tasks)
                => users' = users /\ num_active_users' = num_active_users
          /\ \A t \in TaskIds :
                (Acting(t) /\ tasks[t].kind = "add")
                => IF tasks[t].pc = "insert_user_q" /\ tasks'[t].res = "ok"
                   THEN /\ users[tasks[t].target] = Absent
                        /\ users' = [users EXCEPT
                                        ![tasks[t].target] = tasks[t].dec]
                        /\ num_active_users' = num_active_users
                   ELSE IF tasks[t].pc = "insert_user_r" /\ tasks[t].res = "ok"
                   THEN /\ users' = users
                        /\ num_active_users' = num_active_users + 1
                        /\ tasks'[t].note = "Successfully added User"
                   ELSE users' = users /\ num_active_users' = num_active_users
         ]_vars
    /\ [](\A t \in TaskIds :
             ( /\ tasks[t].kind = "add" /\ tasks[t].pc = "done"
               /\ tasks[t].note # "Successfully added User" )
             => tasks[t].res # "ok")

\* The admin ann has added zed as REVOKED and the counter went from 3 to 4,
\* while the user bob was refused and oper's INSERT failed, both leaving
\* the table and the counter as they were.
C36_Witness ==
    \E t1, t2 \in TaskIds :
        /\ tasks[t1].kind = "add" /\ tasks[t1].pc = "done"
        /\ tasks[t1].nick = "ann" /\ tasks[t1].dec = "REVOKED"
        /\ tasks[t1].note = "Successfully added User"
        /\ users = [SeedUsers EXCEPT !["zed"] = "REVOKED"]
        /\ num_active_users = 4
        /\ tasks[t2].kind = "add" /\ tasks[t2].pc = "done"
        /\ tasks[t2].note \in {"Insufficient permissions", "Couldn't add user"}

-----------------------------------------------------------------------------
(* get_user_privilege, under SpecGate.                                     *)

\* C37: the lookup of a caller's privilege reads the Users row of the
\* caller's identity and changes nothing; the handler receives the stored
\* REVOKED, USER or ADMIN when there is a row and INVALID when there is
\* none, as a value and not as an exception; a caller without identity is
\* INVALID without a query.
C37_LookupReturnsStored ==
    [][/\ \A t \in TaskIds :
             (tasks[t].pc = "priv_q" /\ tasks'[t].pc # "priv_q")
             => /\ tasks'[t].res = users[tasks[t].auth]
                /\ tasks'[t].pc = "priv_r"
                /\ UNCHANGED <<Store, Engine, background, channel>>
       /\ \A t \in TaskIds :
             (tasks[t].pc = "priv_r" /\ Acting(t))
             => /\ tasks'[t].privilege =
                      IF tasks[t].res \in {"REVOKED", "USER", "ADMIN"}
                      THEN tasks[t].res ELSE "INVALID"
                /\ tasks'[t].note # "AttributeError"
       /\ \A t \in DOMAIN tasks' \ TaskIds :
             tasks'[t].kind \in {"vote", "call", "veto", "add", "mod"}
             => IF tasks'[t].auth = None
                THEN /\ tasks'[t].privilege = "INVALID"
                     /\ UNCHANGED <<Store, Engine, background, channel>>
                ELSE tasks'[t].pc = "priv_q"]_vars

\* zed, who has no record, was read as INVALID and eve as REVOKED; both
\* were refused their vote.
C37_Witness ==
    \E t1, t2 \in TaskIds :
        /\ tasks[t1].auth = "zed" /\ tasks[t1].res = Absent
        /\ tasks[t1].privilege = "INVALID" /\ tasks[t1].pc = "done"
        /\ tasks[t2].auth = "eve" /\ tasks[t2].res = "REVOKED"
        /\ tasks[t2].privilege = "REVOKED" /\ tasks[t2].pc = "done"
        /\ users = SeedUsers

=============================================================================
